---- MODULE Spec2Model ----
(***************************************************************************)
(* Work queue / scheduler of HeadshotProcessor (src/processor.js).         *)
(*                                                                         *)
(* The processor is one JavaScript object driven by the event loop.  Every *)
(* public method runs to completion (one action each); processNext() is an *)
(* async function whose await points (the pipeline run, the backoff timer) *)
(* and whose setImmediate continuation are the places where other handlers *)
(* interleave.  Each invocation of processNext() that is suspended at such *)
(* a point is a record in the bag `runs`.                                  *)
(*                                                                         *)
(* Job objects are JavaScript references: a suspended run keeps mutating   *)
(* the object it picked even when the list no longer holds it, so the      *)
(* model keeps a heap `job` (id -> object) and a list `queue` of ids.      *)
(* The queue file holds values (JSON), not references.  Writes to the      *)
(* queue file are assumed to succeed (saveQueue swallows a failed write).  *)
(***************************************************************************)
EXTENDS Integers, Sequences, FiniteSets, Bags, TLC

VARIABLES queue, job, file, processing, currentItem, apiKey,
          processingEnabled, stopRequested, runs, nextId, stops, boot, pipe,
          client, crop, wb, notified

vars == <<queue, job, file, processing, currentItem, apiKey,
          processingEnabled, stopRequested, runs, nextId, stops, boot, pipe,
          client, crop, wb, notified>>

----------------------------------------------------------------------------
(* Bounds of the model: jobs ever enqueued, suspended processNext() calls   *)
(* at one time, stopProcessing()/clearQueue() calls made by the host, and   *)
(* jobs enqueued where the pipeline is followed step by step, and jobs in  *)
(* the list where the list operations are applied to a given list.         *)

MaxJobs == 2
MaxRuns == 2
MaxStops == 1
MaxPipeJobs == 1
MaxListed == 3
MaxSubmissions == 2
MaxSide == 5
MaxFaceTenths == 15

----------------------------------------------------------------------------
(* Values *)

NULL == "null"

maxRetries == 3

JobIds == 1..(IF MaxJobs > MaxListed THEN MaxJobs ELSE MaxListed)

SourcePath(id) == "shoot" \o ToString(id) \o ".jpg"

(* a camera RAW file with no JPEG of the same name beside it *)
RawPath(id) == "shoot" \o ToString(id) \o ".rw2"

IsRaw(sourcePath) == \E id \in JobIds : sourcePath = RawPath(id)

ApiKeys == {NULL, "r8_token"}

RemoteErrors == {"Face enhancement failed: mock error"}

NoJob == [sourcePath |-> NULL, status |-> "none", retries |-> 0,
          error |-> NULL]

NewJob_retried(item) == [sourcePath |-> item, status |-> "pending", retries |-> 1,
                         error |-> NULL]

NewJob(item) == [sourcePath |-> item, status |-> "pending", retries |-> 0,
                 error |-> NULL]

(* no summary has been handed to the host's onStatusUpdate callback since  *)
(* the processor was constructed                                           *)
NotNotified == [queueLength |-> NULL]

Run(id, pc, wait) == [item |-> id, pc |-> pc, wait |-> wait]

ImmediateRun == Run(0, "immediate", 0)

AddRun(rs, r) == rs (+) SetToBag({r})

RemoveRun(rs, r) == rs (-) SetToBag({r})

----------------------------------------------------------------------------
(* The processor object, the queue file and the source files as one value *)

Cur == [queue |-> queue, job |-> job, file |-> file,
        processing |-> processing, currentItem |-> currentItem,
        apiKey |-> apiKey, processingEnabled |-> processingEnabled,
        stopRequested |-> stopRequested, runs |-> runs, notified |-> notified]

Reachable(s) == {s.queue[i] : i \in 1..Len(s.queue)}
                  \cup {r.item : r \in {x \in BagToSet(s.runs) : x.pc = "pipeline"}}
                  \cup (IF s.currentItem = 0 THEN {} ELSE {s.currentItem})

Assign(s) ==
  /\ BagCardinality(s.runs) <= MaxRuns
  /\ queue' = s.queue
  /\ job' = [id \in JobIds |-> IF id \in Reachable(s) THEN s.job[id] ELSE NoJob]
  /\ file' = s.file
  /\ processing' = s.processing
  /\ currentItem' = s.currentItem
  /\ apiKey' = s.apiKey
  /\ processingEnabled' = s.processingEnabled
  /\ stopRequested' = s.stopRequested
  /\ runs' = s.runs
  /\ client' = client
  /\ crop' = crop
  /\ wb' = wb
  /\ notified' = s.notified

Commit(s) == Assign(s) /\ pipe' = pipe

Booted(data, ex) == [fresh |-> TRUE, data |-> data, ex |-> ex]

Running == [fresh |-> FALSE, data |-> <<>>, ex |-> {}]

----------------------------------------------------------------------------
(* Persistence *)

Serialize(q, jb) ==
  [i \in 1..Len(q) |->
     [id |-> q[i], sourcePath |-> jb[q[i]].sourcePath,
      status |-> jb[q[i]].status, retries |-> jb[q[i]].retries,
      error |-> jb[q[i]].error]]

saveQueue(s) ==
  [s EXCEPT !.file = [present |-> TRUE, data |-> Serialize(s.queue, s.job)]]

Restorable(rec, ex) == rec.status # "completed" /\ rec.sourcePath \in ex

RECURSIVE FilterRestorable(_, _)
FilterRestorable(data, ex) ==
  IF data = <<>> THEN <<>>
  ELSE IF Restorable(Head(data), ex)
       THEN <<Head(data)>> \o FilterRestorable(Tail(data), ex)
       ELSE FilterRestorable(Tail(data), ex)

Referenced(data) == {data[i].sourcePath : i \in 1..Len(data)}

Demote_resetRetries(rec) ==
  [sourcePath |-> rec.sourcePath,
   status |-> IF rec.status = "processing" THEN "pending" ELSE rec.status,
   retries |-> IF rec.status = "processing" THEN 0 ELSE rec.retries,
   error |-> rec.error]

Demote(rec) ==
  [sourcePath |-> rec.sourcePath,
   status |-> IF rec.status = "processing" THEN "pending" ELSE rec.status,
   retries |-> rec.retries, error |-> rec.error]

loadQueue(s, ex) ==
  IF ~s.file.present THEN s
  ELSE LET kept == FilterRestorable(s.file.data, ex)
           ids == [i \in 1..Len(kept) |-> kept[i].id]
           heap == [id \in JobIds |->
                      IF \E i \in 1..Len(kept) : kept[i].id = id
                      THEN Demote(kept[CHOOSE i \in 1..Len(kept) : kept[i].id = id])
                      ELSE NoJob]
       IN saveQueue([s EXCEPT !.queue = ids, !.job = heap])

Constructor(f, ex) ==
  loadQueue([queue |-> <<>>, job |-> [id \in JobIds |-> NoJob], file |-> f,
             processing |-> FALSE, currentItem |-> 0,
             apiKey |-> NULL, processingEnabled |-> TRUE,
             stopRequested |-> FALSE, runs |-> EmptyBag, notified |-> NotNotified], ex)

----------------------------------------------------------------------------
(* The scheduling loop *)

getStatus(s) ==
  LET count(st) == Cardinality({i \in 1..Len(s.queue) : s.job[s.queue[i]].status = st})
  IN [queueLength |-> Len(s.queue),
      pending |-> count("pending"),
      processing |-> IF s.processing THEN 1 ELSE 0,
      failed |-> count("failed"),
      completed |-> count("completed"),
      currentItem |-> s.currentItem,
      isProcessing |-> s.processing,
      hasApiKey |-> s.apiKey # NULL,
      processingEnabled |-> s.processingEnabled]

(* the summary last handed to the host's onStatusUpdate callback; the      *)
(* processor's state is taken as one value, t, of which getStatus reads    *)
(* the fields                                                              *)
notifyStatusUpdate(s) ==
  CHOOSE n \in {[t EXCEPT !.notified = getStatus(t)] : t \in {s}} : TRUE

Pending(s) == {i \in 1..Len(s.queue) : s.job[s.queue[i]].status = "pending"}

FirstPending_last(s) == s.queue[CHOOSE i \in Pending(s) : \A k \in Pending(s) : i >= k]

FirstPending(s) == s.queue[CHOOSE i \in Pending(s) : \A k \in Pending(s) : i <= k]

afterRun_staysBusy(s) ==
  LET s1 == notifyStatusUpdate(saveQueue([s EXCEPT !.currentItem = 0]))
  IN IF s1.stopRequested
     THEN [s1 EXCEPT !.stopRequested = FALSE]
     ELSE [s1 EXCEPT !.runs = AddRun(s1.runs, ImmediateRun)]

afterRun(s) ==
  LET s1 == notifyStatusUpdate(saveQueue([s EXCEPT !.processing = FALSE, !.currentItem = 0]))
  IN IF s1.stopRequested
     THEN [s1 EXCEPT !.stopRequested = FALSE]
     ELSE [s1 EXCEPT !.runs = AddRun(s1.runs, ImmediateRun)]

onRejected_shortWait(s, id, message) ==
  LET n == s.job[id].retries + 1
      s1 == [s EXCEPT !.job[id].error = message, !.job[id].retries = n]
  IN IF n >= maxRetries
     THEN afterRun([s1 EXCEPT !.job[id].status = "failed"])
     ELSE [s1 EXCEPT !.job[id].status = "pending",
                     !.runs = AddRun(s1.runs, Run(id, "backoff", (2 ^ (n - 1)) * 1000))]

onRejected(s, id, message) ==
  LET n == s.job[id].retries + 1
      s1 == [s EXCEPT !.job[id].error = message, !.job[id].retries = n]
  IN IF n >= maxRetries
     THEN afterRun([s1 EXCEPT !.job[id].status = "failed"])
     ELSE [s1 EXCEPT !.job[id].status = "pending",
                     !.runs = AddRun(s1.runs, Run(id, "backoff", (2 ^ n) * 1000))]

onFulfilled(s, id) ==
  afterRun([s EXCEPT !.job[id].status = "completed"])

processHeadshot(s, id) ==
  [s EXCEPT !.runs = AddRun(s.runs, Run(id, "pipeline", 0))]

processNext_noCredentialCheck(s) ==
  IF s.processing \/ ~s.processingEnabled THEN s
  ELSE IF Pending(s) = {} THEN s
  ELSE LET id == FirstPending(s)
           s1 == [s EXCEPT !.processing = TRUE, !.currentItem = id,
                           !.job[id].status = "processing"]
       IN processHeadshot(notifyStatusUpdate(saveQueue(s1)), id)

processNext(s) ==
  IF s.processing \/ s.apiKey = NULL \/ ~s.processingEnabled THEN s
  ELSE IF Pending(s) = {} THEN s
  ELSE LET id == FirstPending(s)
           s1 == [s EXCEPT !.processing = TRUE, !.currentItem = id,
                           !.job[id].status = "processing"]
       IN processHeadshot(notifyStatusUpdate(saveQueue(s1)), id)

----------------------------------------------------------------------------
(* Public methods *)

setApiKey(s, key) ==
  LET s1 == [s EXCEPT !.apiKey = key]
  IN IF key # NULL /\ Len(s1.queue) > 0 /\ ~s1.processing
     THEN processNext(s1) ELSE s1

setProcessingEnabled(s, enabled) ==
  LET s1 == [s EXCEPT !.processingEnabled = enabled]
  IN IF enabled /\ s1.apiKey # NULL /\ Len(s1.queue) > 0 /\ ~s1.processing
     THEN processNext(s1) ELSE s1

Kick(s) ==
  IF s.apiKey # NULL /\ s.processingEnabled /\ ~s.processing
  THEN processNext(s) ELSE s

addToQueue_unsaved(s, id, item) ==
  Kick([s EXCEPT !.queue = Append(s.queue, id), !.job[id] = NewJob(item)])

addToQueue(s, id, item) ==
  Kick(notifyStatusUpdate(saveQueue([s EXCEPT !.queue = Append(s.queue, id),
                           !.job[id] = NewJob(item)])))

Reset_keepsError(j) == [j EXCEPT !.status = "pending", !.retries = 0]

Reset(j) == [j EXCEPT !.status = "pending", !.retries = 0, !.error = NULL]

InQueue(s, id) == \E i \in 1..Len(s.queue) : s.queue[i] = id

retryFailed(s, itemId) ==
  IF InQueue(s, itemId) /\ s.job[itemId].status = "failed"
  THEN Kick(notifyStatusUpdate(saveQueue([s EXCEPT !.job[itemId] = Reset(s.job[itemId])])))
  ELSE s

retryAllFailed(s) ==
  Kick(notifyStatusUpdate(saveQueue([s EXCEPT !.job =
     [id \in JobIds |-> IF InQueue(s, id) /\ s.job[id].status = "failed"
                        THEN Reset(s.job[id]) ELSE s.job[id]]])))

RECURSIVE Keep(_, _, _)
Keep(q, jb, statuses) ==
  IF q = <<>> THEN <<>>
  ELSE IF jb[Head(q)].status \in statuses
       THEN <<Head(q)>> \o Keep(Tail(q), jb, statuses)
       ELSE Keep(Tail(q), jb, statuses)

clearCompleted_dropsFailed(s) ==
  notifyStatusUpdate(saveQueue([s EXCEPT !.queue = Keep(s.queue, s.job, {"pending", "processing"})]))

clearCompleted(s) ==
  notifyStatusUpdate(saveQueue([s EXCEPT !.queue = Keep(s.queue, s.job, {"pending", "processing", "failed"})]))

stopProcessing_keepsRetries(s) ==
  LET s1 == [s EXCEPT !.stopRequested = TRUE, !.processingEnabled = FALSE]
      s2 == IF s1.processing /\ s1.currentItem # 0
            THEN [s1 EXCEPT !.job[s1.currentItem].status = "pending"]
            ELSE s1
  IN notifyStatusUpdate(saveQueue([s2 EXCEPT !.processing = FALSE, !.currentItem = 0]))

stopProcessing_staysEnabled(s) ==
  LET s1 == [s EXCEPT !.stopRequested = TRUE]
      s2 == IF s1.processing /\ s1.currentItem # 0
            THEN [s1 EXCEPT !.job[s1.currentItem].status = "pending",
                            !.job[s1.currentItem].retries = 0]
            ELSE s1
  IN notifyStatusUpdate(saveQueue([s2 EXCEPT !.processing = FALSE, !.currentItem = 0]))

stopProcessing(s) ==
  LET s1 == [s EXCEPT !.stopRequested = TRUE, !.processingEnabled = FALSE]
      s2 == IF s1.processing /\ s1.currentItem # 0
            THEN [s1 EXCEPT !.job[s1.currentItem].status = "pending",
                            !.job[s1.currentItem].retries = 0]
            ELSE s1
  IN notifyStatusUpdate(saveQueue([s2 EXCEPT !.processing = FALSE, !.currentItem = 0]))

clearQueue_keepsPending(s, clearFailed) ==
  LET s1 == [s EXCEPT !.stopRequested = TRUE, !.processing = FALSE,
                      !.currentItem = 0]
  IN notifyStatusUpdate(saveQueue([s1 EXCEPT !.queue =
       IF clearFailed THEN Keep(s1.queue, s1.job, {"completed"})
       ELSE Keep(s1.queue, s1.job, {"pending", "failed", "completed"})]))

clearQueue(s, clearFailed) ==
  LET s1 == [s EXCEPT !.stopRequested = TRUE, !.processing = FALSE,
                      !.currentItem = 0]
  IN notifyStatusUpdate(saveQueue([s1 EXCEPT !.queue =
       IF clearFailed THEN Keep(s1.queue, s1.job, {"completed"})
       ELSE Keep(s1.queue, s1.job, {"failed", "completed"})]))

----------------------------------------------------------------------------
(* The enhancement pipeline (processHeadshot) step by step.  `pipe` holds   *)
(* this.enhancementOptions, the behaviour of the remote service, and the   *)
(* progress of the pipeline call that is awaited: the job it works on, the *)
(* steps still to run under the options it read when it started, and its   *)
(* local `results` map.  `outputs` holds, per job, the output-path fields  *)
(* that Object.assign has put on the job object.                           *)

DefaultOptions ==
  [outputPortrait |-> TRUE, outputSquare |-> TRUE,
   faceEnhancement |-> "medium", skinSmoothing |-> "off", upscaling |-> "off",
   backgroundRemoval |-> TRUE, backgroundColor |-> ""]

OptionPatches ==
  { [outputPortrait |-> TRUE, outputSquare |-> TRUE,
     backgroundRemoval |-> TRUE, backgroundColor |-> ""],
    [outputPortrait |-> TRUE, outputSquare |-> TRUE,
     backgroundRemoval |-> TRUE, backgroundColor |-> "#FFFFFF"],
    [outputPortrait |-> TRUE, outputSquare |-> FALSE,
     backgroundRemoval |-> FALSE, backgroundColor |-> ""],
    [outputPortrait |-> FALSE, outputSquare |-> FALSE,
     backgroundRemoval |-> TRUE, backgroundColor |-> ""] }

IntensityPatches == { [skinSmoothing |-> "low", upscaling |-> "2x"] }

(* intensities of face enhancement and skin smoothing, equal and different *)
EnhancementPatches ==
  { [faceEnhancement |-> f, skinSmoothing |-> k] :
      f \in {"off", "medium"}, k \in {"off", "low", "medium"} }

HexColors == {"#FFFFFF"}

ClientError == "mock error"

NoOutputFormats ==
  "No output formats enabled. Enable at least Portrait or Square in settings."

NewPipe ==
  [opts |-> DefaultOptions, healthy |-> TRUE, item |-> 0, todo |-> <<>>,
   results |-> {}, outputs |-> [id \in JobIds |-> {}]]

setEnhancementOptions(p, options) ==
  [p EXCEPT !.opts = [k \in DOMAIN p.opts |->
                        IF k \in DOMAIN options THEN options[k] ELSE p.opts[k]]]

Step(variant, kind) == [variant |-> variant, kind |-> kind]

VariantSteps(opts, v) ==
  <<Step(v, "crop")>>
  \o (IF opts.faceEnhancement # "off"
      THEN <<Step(v, "enhanceFace"), Step(v, "downloadEnhanced")>> ELSE <<>>)
  \o (IF opts.skinSmoothing # "off"
      THEN <<Step(v, "smoothSkin"), Step(v, "downloadSkin")>> ELSE <<>>)
  \o (IF opts.upscaling # "off"
      THEN <<Step(v, "upscaleImage"), Step(v, "downloadUpscale")>> ELSE <<>>)
  \o <<Step(v, "saveFinal")>>
  \o (IF opts.backgroundRemoval
      THEN <<Step(v, "removeBackground"), Step(v, "downloadPng")>>
           \o (IF opts.backgroundColor \in HexColors
               THEN <<Step(v, "addBackgroundColor")>> ELSE <<>>)
      ELSE <<>>)

Plan_squareFirst(opts) ==
  <<Step("both", "detectFaceAndCrop")>>
  \o (IF opts.outputSquare THEN VariantSteps(opts, "square") ELSE <<>>)
  \o (IF opts.outputPortrait THEN VariantSteps(opts, "portrait") ELSE <<>>)

Plan(opts) ==
  <<Step("both", "detectFaceAndCrop")>>
  \o (IF opts.outputPortrait THEN VariantSteps(opts, "portrait") ELSE <<>>)
  \o (IF opts.outputSquare THEN VariantSteps(opts, "square") ELSE <<>>)

ResultKey_portraitOnly(st) ==
  IF st.variant = "portrait"
  THEN CASE st.kind = "saveFinal" -> {"enhancedJpegPath"}
         [] st.kind = "downloadPng" -> {"transparentPngPath"}
         [] st.kind = "addBackgroundColor" -> {"coloredJpegPath"}
         [] OTHER -> {}
  ELSE {}

ResultKey(st) ==
  IF st.variant = "portrait"
  THEN CASE st.kind = "saveFinal" -> {"enhancedJpegPath"}
         [] st.kind = "downloadPng" -> {"transparentPngPath"}
         [] st.kind = "addBackgroundColor" -> {"coloredJpegPath"}
         [] OTHER -> {}
  ELSE CASE st.kind = "saveFinal" -> {"enhancedSquarePath"}
         [] st.kind = "downloadPng" -> {"transparentSquarePngPath"}
         [] st.kind = "addBackgroundColor" -> {"coloredSquareJpegPath"}
         [] OTHER -> {}

RemoteKinds ==
  {"enhanceFace", "downloadEnhanced", "smoothSkin", "downloadSkin",
   "upscaleImage", "downloadUpscale", "removeBackground", "downloadPng"}

Thrown(st) ==
  LET sq == st.variant = "square"
  IN (CASE st.kind = "enhanceFace" ->
             IF sq THEN "Square face enhancement failed: " ELSE "Face enhancement failed: "
        [] st.kind = "downloadEnhanced" ->
             IF sq THEN "Failed to download enhanced square image: "
             ELSE "Failed to download enhanced image: "
        [] st.kind = "smoothSkin" ->
             IF sq THEN "Square skin smoothing failed: " ELSE "Skin smoothing failed: "
        [] st.kind = "downloadSkin" ->
             IF sq THEN "Failed to download skin-smoothed square image: "
             ELSE "Failed to download skin-smoothed image: "
        [] st.kind = "upscaleImage" ->
             IF sq THEN "Square upscaling failed: " ELSE "Upscaling failed: "
        [] st.kind = "downloadUpscale" ->
             IF sq THEN "Failed to download upscaled square image: "
             ELSE "Failed to download upscaled image: "
        [] st.kind = "removeBackground" ->
             IF sq THEN "Square background removal failed: "
             ELSE "Background removal failed: "
        [] OTHER ->
             IF sq THEN "Failed to download transparent square PNG: "
             ELSE "Failed to download transparent PNG: ") \o ClientError

----------------------------------------------------------------------------
(* Remote client (src/replicate.js).  One ReplicateClient is used          *)
(* sequentially: a call is made when the previous one has returned.  Time  *)
(* is in milliseconds and passes in quanta while the client awaits; the    *)
(* client keeps what the code computes from the clock, the time since      *)
(* lastRequestTime, which saturates at the interval (the code only asks    *)
(* whether it is below the interval and by how much).  sinceSubmission is  *)
(* the same measure from the last axios.post, kept for the observer.       *)

MIN_REQUEST_INTERVAL_MS == 12000

Quantum == 3000

maxAttempts == 300

OutputUrl == "https://replicate.delivery/output.png"

RemoteOps == {"enhanceFace", "smoothSkin", "upscaleImage", "removeBackground"}

Skippable == {"enhanceFace", "smoothSkin", "upscaleImage"}

ClientOps == RemoteOps \cup {"downloadImage"}

NonTerminal == {"starting", "processing"}

Saturate(ms) == IF ms > MIN_REQUEST_INTERVAL_MS THEN MIN_REQUEST_INTERVAL_MS ELSE ms

Result(success, url, error, skipped) ==
  [success |-> success, url |-> url, error |-> error, skipped |-> skipped]

NoResult == [success |-> FALSE, url |-> NULL, error |-> NULL, skipped |-> FALSE]

(* lastRequestTime = 0 in the constructor: the first request is not held.  *)
NewClient ==
  [pc |-> "idle", op |-> NULL, i |-> 0, polls |-> 0,
   timeSinceLastRequest |-> MIN_REQUEST_INTERVAL_MS,
   sinceSubmission |-> MIN_REQUEST_INTERVAL_MS, submissions |-> 0,
   prediction |-> NoResult, result |-> NoResult]

(* `new ReplicateClient(apiKey)` at a moment when the previous submission  *)
(* of the program, by whichever client, is sinceSubmission old: the new    *)
(* object knows nothing of it.                                             *)
ReplicateClient_sharedClock(sinceSubmission) ==
  [NewClient EXCEPT !.timeSinceLastRequest = sinceSubmission,
                    !.sinceSubmission = sinceSubmission]

ReplicateClient(sinceSubmission) ==
  [NewClient EXCEPT !.sinceSubmission = sinceSubmission]

(* return value of an operation *)
returns(c, result) == [c EXCEPT !.pc = "returned", !.result = result]

(* catch (error) of an operation: error.response?.data?.detail ||          *)
(* error.message                                                           *)
catch_rethrows(c, error) == [c EXCEPT !.pc = "thrown"]

catch(c, error) == returns(c, Result(FALSE, NULL, error, FALSE))

(* an operation is called: 'off' returns at once, before the try           *)
call(c, op, setting) ==
  LET c1 == [c EXCEPT !.op = op, !.i = 0, !.polls = 0,
                      !.prediction = NoResult, !.result = NoResult]
  IN IF op \in Skippable /\ setting = "off"
     THEN returns(c1, Result(TRUE, NULL, NULL, TRUE))
     ELSE IF op = "downloadImage" THEN [c1 EXCEPT !.pc = "download"]
     ELSE [c1 EXCEPT !.pc = "imageToDataUri"]

(* waitForRateLimit: sleep for what is missing to the interval, then       *)
(* lastRequestTime = Date.now()                                            *)
waitForRateLimit_noWait(c) ==
  [c EXCEPT !.timeSinceLastRequest = 0, !.pc = "post"]

waitForRateLimit(c) ==
  LET timeSinceLastRequest == c.timeSinceLastRequest
      waitTime == IF timeSinceLastRequest < MIN_REQUEST_INTERVAL_MS
                  THEN MIN_REQUEST_INTERVAL_MS - timeSinceLastRequest ELSE 0
  IN [c EXCEPT !.timeSinceLastRequest = 0,
               !.sinceSubmission = Saturate(@ + waitTime),
               !.pc = "post"]

(* what the operation does with the value of waitForPrediction             *)
afterPrediction(c, prediction) ==
  returns([c EXCEPT !.prediction = prediction],
          IF prediction.success
          THEN Result(TRUE, prediction.url, NULL, FALSE)
          ELSE prediction)

(* one iteration of the loop of waitForPrediction, the status poll having  *)
(* answered `status` with the error field `error`                          *)
waitForPrediction_oneMore(c, status, error) ==
  LET c1 == [c EXCEPT !.polls = @ + 1]
  IN IF status = "succeeded"
     THEN afterPrediction(c1, Result(TRUE, OutputUrl, NULL, FALSE))
     ELSE IF status \in {"failed", "canceled"}
     THEN afterPrediction(c1, Result(FALSE, NULL,
                                     IF error # NULL THEN error ELSE "Prediction failed",
                                     FALSE))
     ELSE IF c.i + 1 < maxAttempts + 1
     THEN [c1 EXCEPT !.i = @ + 1]
     ELSE afterPrediction([c1 EXCEPT !.i = @ + 1],
                          Result(FALSE, NULL, "Timeout waiting for prediction (150s)", FALSE))

waitForPrediction(c, status, error) ==
  LET c1 == [c EXCEPT !.polls = @ + 1]
  IN IF status = "succeeded"
     THEN afterPrediction(c1, Result(TRUE, OutputUrl, NULL, FALSE))
     ELSE IF status \in {"failed", "canceled"}
     THEN afterPrediction(c1, Result(FALSE, NULL,
                                     IF error # NULL THEN error ELSE "Prediction failed",
                                     FALSE))
     ELSE IF c.i + 1 < maxAttempts
     THEN [c1 EXCEPT !.i = @ + 1]
     ELSE afterPrediction([c1 EXCEPT !.i = @ + 1],
                          Result(FALSE, NULL, "Timeout waiting for prediction (150s)", FALSE))

----------------------------------------------------------------------------
(* Smart crop (applySmartCropAndCorrection).  The code computes in         *)
(* floating point; the model computes the same quantities exactly, in      *)
(* thousandths of a pixel: the estimated face height is given in tenths    *)
(* (it is 1.3 or 0.4 times an integer), the face centre in halves (it is   *)
(* x + width / 2), and the factors 3.5, 4, 0.8, 1/0.8, 0.35 and 0.30 keep   *)
(* every intermediate value a whole number of thousandths.                 *)

HEADSHOT_ASPECT_RATIO == [num |-> 4, den |-> 5]

SQUARE_ASPECT_RATIO == [num |-> 1, den |-> 1]

AspectRatios == {HEADSHOT_ASPECT_RATIO, SQUARE_ASPECT_RATIO}

(* Math.round of n / d (d > 0): the nearest integer, halves towards        *)
(* +Infinity                                                               *)
MathRound(n, d) == (2 * n + d) \div (2 * d)

MathMin(a, b) == IF a < b THEN a ELSE b

MathMax(a, b) == IF a > b THEN a ELSE b

NoCrop == [pc |-> "none"]

(* faceData: imageWidth, imageHeight in pixels, faceCenterX2 and           *)
(* faceCenterY2 in half pixels, estimatedFaceHeight10 in tenths of a pixel *)
applySmartCropAndCorrection_sameFraction(faceData, aspectRatio) ==
  LET imageWidth == faceData.imageWidth
      imageHeight == faceData.imageHeight
      cropHeight0 ==
        IF aspectRatio.num >= aspectRatio.den
        THEN MathMin(350 * faceData.estimatedFaceHeight10, 1000 * imageHeight)
        ELSE MathMin(400 * faceData.estimatedFaceHeight10, 1000 * imageHeight)
      cropWidth0 == (cropHeight0 * aspectRatio.num) \div aspectRatio.den
      cropWidth1 == IF cropWidth0 > 1000 * imageWidth THEN 1000 * imageWidth ELSE cropWidth0
      cropHeight1 == IF cropWidth0 > 1000 * imageWidth
                     THEN (cropWidth1 * aspectRatio.den) \div aspectRatio.num
                     ELSE cropHeight0
      cropHeight2 == IF cropHeight1 > 1000 * imageHeight THEN 1000 * imageHeight ELSE cropHeight1
      cropWidth2 == IF cropHeight1 > 1000 * imageHeight
                    THEN (cropHeight2 * aspectRatio.num) \div aspectRatio.den
                    ELSE cropWidth1
      cropWidth == MathRound(cropWidth2, 1000)
      cropHeight == MathRound(cropHeight2, 1000)
      cropX0 == MathRound(faceData.faceCenterX2 - cropWidth, 2)
      targetFacePositionY100 ==
        35 * cropHeight
      cropY0 == MathRound(50 * faceData.faceCenterY2 - targetFacePositionY100, 100)
      cropX1 == IF cropX0 < 0 THEN 0
                ELSE IF cropX0 + cropWidth > imageWidth THEN imageWidth - cropWidth
                ELSE cropX0
      cropY1 == IF cropY0 < 0 THEN 0
                ELSE IF cropY0 + cropHeight > imageHeight THEN imageHeight - cropHeight
                ELSE cropY0
      (* the oriented image has the dimensions detectFaceAndCrop measured *)
      cropX == MathMax(0, MathMin(cropX1, imageWidth - cropWidth))
      cropY == MathMax(0, MathMin(cropY1, imageHeight - cropHeight))
  IN [pc |-> "cropped", left |-> cropX, top |-> cropY,
      width |-> MathMin(cropWidth, imageWidth - cropX),
      height |-> MathMin(cropHeight, imageHeight - cropY)]

applySmartCropAndCorrection_stretched(faceData, aspectRatio) ==
  LET imageWidth == faceData.imageWidth
      imageHeight == faceData.imageHeight
      cropHeight0 ==
        IF aspectRatio.num >= aspectRatio.den
        THEN MathMin(350 * faceData.estimatedFaceHeight10, 1000 * imageHeight)
        ELSE MathMin(400 * faceData.estimatedFaceHeight10, 1000 * imageHeight)
      cropWidth0 == (cropHeight0 * aspectRatio.num) \div aspectRatio.den
      cropWidth == MathRound(MathMin(cropWidth0, 1000 * imageWidth), 1000)
      cropHeight == MathRound(cropHeight0, 1000)
      cropX0 == MathRound(faceData.faceCenterX2 - cropWidth, 2)
      targetFacePositionY100 ==
        IF aspectRatio.num = aspectRatio.den THEN 35 * cropHeight ELSE 30 * cropHeight
      cropY0 == MathRound(50 * faceData.faceCenterY2 - targetFacePositionY100, 100)
      cropX == MathMax(0, MathMin(cropX0, imageWidth - cropWidth))
      cropY == MathMax(0, MathMin(cropY0, imageHeight - cropHeight))
  IN [pc |-> "cropped", left |-> cropX, top |-> cropY,
      width |-> MathMin(cropWidth, imageWidth - cropX),
      height |-> MathMin(cropHeight, imageHeight - cropY)]

applySmartCropAndCorrection_unclamped(faceData, aspectRatio) ==
  LET imageWidth == faceData.imageWidth
      imageHeight == faceData.imageHeight
      cropHeight0 ==
        IF aspectRatio.num >= aspectRatio.den
        THEN MathMin(350 * faceData.estimatedFaceHeight10, 1000 * imageHeight)
        ELSE MathMin(400 * faceData.estimatedFaceHeight10, 1000 * imageHeight)
      cropWidth0 == (cropHeight0 * aspectRatio.num) \div aspectRatio.den
      cropWidth1 == IF cropWidth0 > 1000 * imageWidth THEN 1000 * imageWidth ELSE cropWidth0
      cropHeight1 == IF cropWidth0 > 1000 * imageWidth
                     THEN (cropWidth1 * aspectRatio.den) \div aspectRatio.num
                     ELSE cropHeight0
      cropHeight2 == IF cropHeight1 > 1000 * imageHeight THEN 1000 * imageHeight ELSE cropHeight1
      cropWidth2 == IF cropHeight1 > 1000 * imageHeight
                    THEN (cropHeight2 * aspectRatio.num) \div aspectRatio.den
                    ELSE cropWidth1
      cropWidth == MathRound(cropWidth2, 1000)
      cropHeight == MathRound(cropHeight2, 1000)
      cropX0 == MathRound(faceData.faceCenterX2 - cropWidth, 2)
      targetFacePositionY100 ==
        IF aspectRatio.num = aspectRatio.den THEN 35 * cropHeight ELSE 30 * cropHeight
      cropY0 == MathRound(50 * faceData.faceCenterY2 - targetFacePositionY100, 100)
  IN [pc |-> "cropped", left |-> cropX0, top |-> cropY0,
      width |-> cropWidth, height |-> cropHeight]

applySmartCropAndCorrection(faceData, aspectRatio) ==
  LET imageWidth == faceData.imageWidth
      imageHeight == faceData.imageHeight
      cropHeight0 ==
        IF aspectRatio.num >= aspectRatio.den
        THEN MathMin(350 * faceData.estimatedFaceHeight10, 1000 * imageHeight)
        ELSE MathMin(400 * faceData.estimatedFaceHeight10, 1000 * imageHeight)
      cropWidth0 == (cropHeight0 * aspectRatio.num) \div aspectRatio.den
      cropWidth1 == IF cropWidth0 > 1000 * imageWidth THEN 1000 * imageWidth ELSE cropWidth0
      cropHeight1 == IF cropWidth0 > 1000 * imageWidth
                     THEN (cropWidth1 * aspectRatio.den) \div aspectRatio.num
                     ELSE cropHeight0
      cropHeight2 == IF cropHeight1 > 1000 * imageHeight THEN 1000 * imageHeight ELSE cropHeight1
      cropWidth2 == IF cropHeight1 > 1000 * imageHeight
                    THEN (cropHeight2 * aspectRatio.num) \div aspectRatio.den
                    ELSE cropWidth1
      cropWidth == MathRound(cropWidth2, 1000)
      cropHeight == MathRound(cropHeight2, 1000)
      cropX0 == MathRound(faceData.faceCenterX2 - cropWidth, 2)
      targetFacePositionY100 ==
        IF aspectRatio.num = aspectRatio.den THEN 35 * cropHeight ELSE 30 * cropHeight
      cropY0 == MathRound(50 * faceData.faceCenterY2 - targetFacePositionY100, 100)
      cropX1 == IF cropX0 < 0 THEN 0
                ELSE IF cropX0 + cropWidth > imageWidth THEN imageWidth - cropWidth
                ELSE cropX0
      cropY1 == IF cropY0 < 0 THEN 0
                ELSE IF cropY0 + cropHeight > imageHeight THEN imageHeight - cropHeight
                ELSE cropY0
      (* the oriented image has the dimensions detectFaceAndCrop measured *)
      cropX == MathMax(0, MathMin(cropX1, imageWidth - cropWidth))
      cropY == MathMax(0, MathMin(cropY1, imageHeight - cropHeight))
  IN [pc |-> "cropped", left |-> cropX, top |-> cropY,
      width |-> MathMin(cropWidth, imageWidth - cropX),
      height |-> MathMin(cropHeight, imageHeight - cropY)]

----------------------------------------------------------------------------
(* White balance (calculateWhiteBalance).  A JavaScript number is a        *)
(* fraction n / d with d > 0, or Infinity, or NaN.                         *)

Num(n, d) == [kind |-> "num", n |-> n, d |-> d]

Infinity == [kind |-> "inf", n |-> 1, d |-> 0]

NaN == [kind |-> "nan", n |-> 0, d |-> 0]

(* a / b for a, b >= 0 *)
Divide(a, b) ==
  IF b # 0 THEN Num(a, b) ELSE IF a = 0 THEN NaN ELSE Infinity

(* x < y for two fractions *)
Less(x, y) == x.n * y.d < y.n * x.d

(* Math.min(limit, x) and Math.max(limit, x) for a finite limit: NaN if x  *)
(* is NaN                                                                  *)
MathMinNumber(limit, x) ==
  IF x.kind = "nan" THEN NaN
  ELSE IF x.kind = "inf" THEN limit
  ELSE IF Less(x, limit) THEN x ELSE limit

MathMaxNumber(limit, x) ==
  IF x.kind = "nan" THEN NaN
  ELSE IF x.kind = "inf" THEN x
  ELSE IF Less(limit, x) THEN x ELSE limit

Zero == Num(0, 1)

One == Num(1, 1)

Diagonal(r, g, b) == <<<<r, Zero, Zero>>, <<Zero, g, Zero>>, <<Zero, Zero, b>>>>

NoWb == [pc |-> "none"]

HighlightThreshold == 220

(* highlights: the averages hR, hG, hB of the brightest pixels, or the     *)
(* image cannot be read (sharp throws) and the catch returns the identity  *)
calculateWhiteBalance(hR, hG, hB, readable) ==
  IF ~readable
  THEN [matrix |-> Diagonal(One, One, One), factors |-> [r |-> One, g |-> One, b |-> One]]
  ELSE LET maxChannel == MathMax(hR, MathMax(hG, hB))
           bright == hR + hG + hB > 3 * HighlightThreshold
           maxAdj == IF bright THEN Num(105, 100) ELSE Num(115, 100)
           minAdj == IF bright THEN Num(95, 100) ELSE Num(85, 100)
           rFactor == MathMaxNumber(minAdj, MathMinNumber(maxAdj, Divide(maxChannel, hR)))
           gFactor == MathMaxNumber(minAdj, MathMinNumber(maxAdj, Divide(maxChannel, hG)))
           bFactor == MathMaxNumber(minAdj, MathMinNumber(maxAdj, Divide(maxChannel, hB)))
       IN [matrix |-> Diagonal(rFactor, gFactor, bFactor),
           factors |-> [r |-> rFactor, g |-> gFactor, b |-> bFactor]]

----------------------------------------------------------------------------
(* Initial state: a fresh installation, no queue file, source files on disk *)

Init ==
  /\ queue = <<>>
  /\ job = [id \in JobIds |-> NoJob]
  /\ file = [present |-> FALSE, data |-> <<>>]
  /\ processing = FALSE
  /\ currentItem = 0
  /\ apiKey = NULL
  /\ processingEnabled = TRUE
  /\ stopRequested = FALSE
  /\ runs = EmptyBag
  /\ nextId = 1
  /\ stops = 0
  /\ boot = Booted(<<>>, {})
  /\ pipe = NewPipe
  /\ client = NewClient
  /\ crop = NoCrop
  /\ wb = NoWb
  /\ notified = NotNotified

----------------------------------------------------------------------------
(* Actions: calls made by the host (main.js).  Every captured photo is a   *)
(* new file, so each enqueued job has its own source path.                 *)

AddToQueue(item) ==
  /\ nextId <= MaxJobs
  /\ Commit(addToQueue(Cur, nextId, item))
  /\ nextId' = nextId + 1
  /\ boot' = Running
  /\ UNCHANGED stops

SetApiKey(key) ==
  /\ Commit(setApiKey(Cur, key))
  /\ boot' = Running
  /\ UNCHANGED <<nextId, stops>>

SetProcessingEnabled(enabled) ==
  /\ Commit(setProcessingEnabled(Cur, enabled))
  /\ boot' = Running
  /\ UNCHANGED <<nextId, stops>>

RetryFailed(itemId) ==
  /\ Commit(retryFailed(Cur, itemId))
  /\ boot' = Running
  /\ UNCHANGED <<nextId, stops>>

RetryAllFailed ==
  /\ Commit(retryAllFailed(Cur))
  /\ boot' = Running
  /\ UNCHANGED <<nextId, stops>>

ClearCompleted ==
  /\ Commit(clearCompleted(Cur))
  /\ boot' = Running
  /\ UNCHANGED <<nextId, stops>>

StopProcessing ==
  /\ stops < MaxStops
  /\ Commit(stopProcessing(Cur))
  /\ stops' = stops + 1
  /\ boot' = Running
  /\ UNCHANGED nextId

ClearQueue(clearFailed) ==
  /\ stops < MaxStops
  /\ Commit(clearQueue(Cur, clearFailed))
  /\ stops' = stops + 1
  /\ boot' = Running
  /\ UNCHANGED nextId

(* Actions: continuations of a suspended processNext() *)

PipelineSucceeds(r) ==
  /\ r.pc = "pipeline"
  /\ Commit(onFulfilled([Cur EXCEPT !.runs = RemoveRun(runs, r)], r.item))
  /\ boot' = Running
  /\ UNCHANGED <<nextId, stops>>

PipelineFails(r, message) ==
  /\ r.pc = "pipeline"
  /\ Commit(onRejected([Cur EXCEPT !.runs = RemoveRun(runs, r)], r.item, message))
  /\ boot' = Running
  /\ UNCHANGED <<nextId, stops>>

BackoffElapses(r) ==
  /\ r.pc = "backoff"
  /\ Commit(afterRun([Cur EXCEPT !.runs = RemoveRun(runs, r)]))
  /\ boot' = Running
  /\ UNCHANGED <<nextId, stops>>

Immediate(r) ==
  /\ r.pc = "immediate"
  /\ Commit(processNext([Cur EXCEPT !.runs = RemoveRun(runs, r)]))
  /\ boot' = Running
  /\ UNCHANGED <<nextId, stops>>

(* Action: the application is killed (or quits) and started again; `ex`  *)
(* is the set of source files then on disk (what fs.existsSync answers).  *)

Restart(ex) ==
  /\ file.present
  /\ Commit(Constructor(file, ex))
  /\ boot' = Booted(file.data, ex)
  /\ UNCHANGED <<nextId, stops>>

Next ==
  \/ \E item \in {SourcePath(nextId)} : AddToQueue(item)
  \/ \E key \in ApiKeys : SetApiKey(key)
  \/ \E enabled \in BOOLEAN : SetProcessingEnabled(enabled)
  \/ \E itemId \in JobIds : RetryFailed(itemId)
  \/ RetryAllFailed
  \/ ClearCompleted
  \/ StopProcessing
  \/ \E clearFailed \in BOOLEAN : ClearQueue(clearFailed)
  \/ \E r \in BagToSet(runs) : PipelineSucceeds(r)
  \/ \E r \in BagToSet(runs), message \in RemoteErrors : PipelineFails(r, message)
  \/ \E r \in BagToSet(runs) : BackoffElapses(r)
  \/ \E r \in BagToSet(runs) : Immediate(r)
  \/ \E ex \in SUBSET Referenced(file.data) : Restart(ex)

Spec == Init /\ [][Next]_vars

----------------------------------------------------------------------------
(* The same processor with processHeadshot in detail.  The host here only  *)
(* enqueues, sets the credential and changes the enhancement options; it   *)
(* never stops or clears, so there is one processNext() at a time and      *)
(* `pipe` describes the pipeline call it awaits.                           *)

PipeJobIds == 1..MaxPipeJobs

AwaitedPipeline(s) == {r \in BagToSet(s.runs) : r.pc = "pipeline"}

(* The synchronous head of processHeadshot, in the same tick as the        *)
(* processNext() that called it: for a RAW source run up to the awaited    *)
(* conversion; else read the options, reject at once when no output format *)
(* is enabled, else run up to the first await.                             *)
leavePipeline(p) == [p EXCEPT !.item = 0, !.todo = <<>>, !.results = {}]

(* `const opts = this.enhancementOptions`, the check that an output format *)
(* is enabled, and the code up to the next await                           *)
readOptions(s, p, r) ==
  IF ~p.opts.outputPortrait /\ ~p.opts.outputSquare
  THEN [s |-> onRejected([s EXCEPT !.runs = RemoveRun(s.runs, r)],
                         r.item, NoOutputFormats),
        p |-> leavePipeline(p)]
  ELSE [s |-> s,
        p |-> [p EXCEPT !.item = r.item, !.todo = Plan(p.opts), !.results = {}]]

enterPipeline(s, p) ==
  IF p.item # 0 \/ AwaitedPipeline(s) = {} THEN [s |-> s, p |-> p]
  ELSE LET r == CHOOSE x \in AwaitedPipeline(s) : TRUE
       IN IF IsRaw(s.job[r.item].sourcePath)
          THEN [s |-> s,
                p |-> [p EXCEPT !.item = r.item,
                                !.todo = <<Step("both", "convertRawToJpeg")>>,
                                !.results = {}]]
          ELSE readOptions(s, p, r)

CommitBoth(x) == Assign(x.s) /\ pipe' = x.p

Enqueue(item) ==
  /\ nextId <= MaxPipeJobs
  /\ CommitBoth(enterPipeline(addToQueue(Cur, nextId, item), pipe))
  /\ nextId' = nextId + 1
  /\ boot' = Running
  /\ UNCHANGED stops

Configure(key) ==
  /\ CommitBoth(enterPipeline(setApiKey(Cur, key), pipe))
  /\ boot' = Running
  /\ UNCHANGED <<nextId, stops>>

NextPass(r) ==
  /\ r.pc = "immediate"
  /\ CommitBoth(enterPipeline(processNext([Cur EXCEPT !.runs = RemoveRun(runs, r)]), pipe))
  /\ boot' = Running
  /\ UNCHANGED <<nextId, stops>>

SetEnhancementOptions(options) ==
  /\ CommitBoth([s |-> Cur, p |-> setEnhancementOptions(pipe, options)])
  /\ boot' = Running
  /\ UNCHANGED <<nextId, stops>>

RemoteHealth(healthy) ==
  /\ CommitBoth([s |-> Cur, p |-> [pipe EXCEPT !.healthy = healthy]])
  /\ boot' = Running
  /\ UNCHANGED <<nextId, stops>>

(* The pipeline call moves past its awaited step, `keys` being the paths   *)
(* that step recorded; after the last step the paths in `results` are      *)
(* assigned to the job and processNext() resumes.                          *)
advance(s, p, keys) ==
  LET results == p.results \cup keys
      r == Run(p.item, "pipeline", 0)
  IN IF Head(p.todo).kind = "convertRawToJpeg"
     THEN readOptions(s, p, r)
     ELSE IF Tail(p.todo) # <<>>
     THEN [s |-> s, p |-> [p EXCEPT !.todo = Tail(p.todo), !.results = results]]
     ELSE [s |-> onFulfilled([s EXCEPT !.runs = RemoveRun(s.runs, r)], p.item),
           p |-> leavePipeline([p EXCEPT !.outputs[p.item] = @ \cup results])]

stepSucceeds(s, p, st) == advance(s, p, ResultKey(st))

(* The awaited step reports failure: processHeadshot throws, except for    *)
(* the colour compositing, whose failure is ignored.                       *)
stepFails_tolerant(s, p, st) ==
  LET r == Run(p.item, "pipeline", 0)
  IN IF st.kind \in {"addBackgroundColor", "downloadUpscale"}
     THEN advance(s, p, {})
     ELSE [s |-> onRejected([s EXCEPT !.runs = RemoveRun(s.runs, r)],
                            p.item, Thrown(st)),
           p |-> leavePipeline(p)]

stepFails(s, p, st) ==
  LET r == Run(p.item, "pipeline", 0)
  IN IF st.kind = "addBackgroundColor"
     THEN advance(s, p, {})
     ELSE [s |-> onRejected([s EXCEPT !.runs = RemoveRun(s.runs, r)],
                            p.item, Thrown(st)),
           p |-> leavePipeline(p)]

(* A local step throws: the conversion yields no JPEG, or sharp or the     *)
(* saliency detector rejects inside detectFaceAndCrop.  Nothing catches it *)
(* in processHeadshot.                                                     *)
LocalKinds == {"convertRawToJpeg", "detectFaceAndCrop"}

RawConversionFailed ==
  "No JPEG available and RAW conversion failed. Please enable JPEG+RAW mode on camera, or install dcraw for RAW processing."

LibraryErrors == {"Input file contains unsupported image format"}

localStepFails(s, p, st, message) ==
  LET r == Run(p.item, "pipeline", 0)
  IN [s |-> onRejected([s EXCEPT !.runs = RemoveRun(s.runs, r)], p.item,
                       IF st.kind = "convertRawToJpeg" THEN RawConversionFailed
                       ELSE message),
      p |-> leavePipeline(p)]

StepSucceeds ==
  /\ pipe.item # 0
  /\ CommitBoth(stepSucceeds(Cur, pipe, Head(pipe.todo)))
  /\ boot' = Running
  /\ UNCHANGED <<nextId, stops>>

StepFails ==
  /\ pipe.item # 0
  /\ ~pipe.healthy
  /\ Head(pipe.todo).kind \in RemoteKinds \cup {"addBackgroundColor"}
  /\ CommitBoth(stepFails(Cur, pipe, Head(pipe.todo)))
  /\ boot' = Running
  /\ UNCHANGED <<nextId, stops>>

LocalStepFails(message) ==
  /\ pipe.item # 0
  /\ Head(pipe.todo).kind \in LocalKinds
  /\ CommitBoth(localStepFails(Cur, pipe, Head(pipe.todo), message))
  /\ boot' = Running
  /\ UNCHANGED <<nextId, stops>>

(* Inside the crop step calculateWhiteBalance cannot read the image: its   *)
(* catch returns the identity and the step goes on.                        *)
WhiteBalanceFallsBack ==
  /\ pipe.item # 0
  /\ Head(pipe.todo).kind = "crop"
  /\ wb' = [pc |-> "done", hR |-> 0, hG |-> 0, hB |-> 0, readable |-> FALSE]
           @@ calculateWhiteBalance(0, 0, 0, FALSE)
  /\ UNCHANGED <<queue, job, file, processing, currentItem, apiKey,
                 processingEnabled, stopRequested, runs, nextId, stops, boot, pipe,
                 client, crop, notified>>

PipeNext ==
  \/ \E item \in {SourcePath(nextId)} : Enqueue(item)
  \/ \E key \in ApiKeys : Configure(key)
  \/ \E options \in OptionPatches \cup IntensityPatches : SetEnhancementOptions(options)
  \/ \E healthy \in BOOLEAN : RemoteHealth(healthy)
  \/ StepSucceeds
  \/ StepFails
  \/ \E r \in BagToSet(runs) : BackoffElapses(r)
  \/ \E r \in BagToSet(runs) : NextPass(r)

PipeSpec == Init /\ [][PipeNext]_vars

(* The same with a remote service (a mock) whose every step succeeds.      *)

SucceedingNext ==
  \/ \E item \in {SourcePath(nextId)} : Enqueue(item)
  \/ \E key \in ApiKeys : Configure(key)
  \/ \E options \in OptionPatches : SetEnhancementOptions(options)
  \/ StepSucceeds
  \/ \E r \in BagToSet(runs) : BackoffElapses(r)
  \/ \E r \in BagToSet(runs) : NextPass(r)

SucceedingSpec == Init /\ [][SucceedingNext]_vars

(* The same with the intensities of face enhancement and skin smoothing    *)
(* set by the host.                                                        *)

EnhancementNext ==
  \/ \E item \in {SourcePath(nextId)} : Enqueue(item)
  \/ \E key \in ApiKeys : Configure(key)
  \/ \E options \in EnhancementPatches : SetEnhancementOptions(options)
  \/ StepSucceeds
  \/ \E r \in BagToSet(runs) : NextPass(r)

EnhancementSpec == Init /\ [][EnhancementNext]_vars

(* The same with RAW sources and local steps that may fail, the remote     *)
(* service succeeding.                                                     *)

LocalNext ==
  \/ \E item \in {SourcePath(nextId), RawPath(nextId)} : Enqueue(item)
  \/ \E key \in ApiKeys : Configure(key)
  \/ \E options \in OptionPatches : SetEnhancementOptions(options)
  \/ StepSucceeds
  \/ \E message \in LibraryErrors : LocalStepFails(message)
  \/ WhiteBalanceFallsBack
  \/ \E r \in BagToSet(runs) : BackoffElapses(r)
  \/ \E r \in BagToSet(runs) : NextPass(r)

LocalSpec == Init /\ [][LocalNext]_vars

(* Fairness: an awaited step settles, a timer fires, a setImmediate        *)
(* callback runs; the host's calls are under no obligation.                *)
SucceedingFair ==
  /\ SucceedingSpec
  /\ WF_vars(StepSucceeds)
  /\ WF_vars(\E r \in BagToSet(runs) : BackoffElapses(r))
  /\ WF_vars(\E r \in BagToSet(runs) : NextPass(r))

----------------------------------------------------------------------------
(* The list operations applied to a given list.  The processor is idle     *)
(* with no credential (the operator cleared it) and holds MaxListed jobs,  *)
(* each one waiting for its first attempt, failed after maxRetries         *)
(* attempts, or completed at the first attempt; the host then sets the     *)
(* credential and retries, clears and stops.                               *)

ListedIds == 1..MaxListed

Listed(id, status) ==
  CASE status = "failed" ->
         [NewJob(SourcePath(id)) EXCEPT !.status = "failed",
                                        !.retries = maxRetries,
                                        !.error = "Face enhancement failed: " \o ClientError]
    [] status = "completed" -> [NewJob(SourcePath(id)) EXCEPT !.status = "completed"]
    [] OTHER -> NewJob(SourcePath(id))

ListInit ==
  \E st \in [ListedIds -> {"pending", "failed", "completed"}] :
    /\ queue = [i \in ListedIds |-> i]
    /\ job = [id \in JobIds |-> IF id \in ListedIds THEN Listed(id, st[id]) ELSE NoJob]
    /\ file = [present |-> TRUE,
               data |-> Serialize([i \in ListedIds |-> i],
                                  [id \in ListedIds |-> Listed(id, st[id])])]
    /\ processing = FALSE
    /\ currentItem = 0
    /\ apiKey = NULL
    /\ processingEnabled = TRUE
    /\ stopRequested = FALSE
    /\ runs = EmptyBag
    /\ nextId = MaxListed + 1
    /\ stops = 0
    /\ boot = Running
    /\ pipe = NewPipe
    /\ client = NewClient
    /\ crop = NoCrop
    /\ wb = NoWb
    /\ notified = NotNotified

ListNext ==
  \/ \E key \in ApiKeys : SetApiKey(key)
  \/ \E itemId \in JobIds : RetryFailed(itemId)
  \/ RetryAllFailed
  \/ ClearCompleted
  \/ StopProcessing
  \/ \E clearFailed \in BOOLEAN : ClearQueue(clearFailed)

ListSpec == ListInit /\ [][ListNext]_vars

----------------------------------------------------------------------------
(* Observations used by the properties *)

InList == {queue[i] : i \in 1..Len(queue)}

InFlight == {r \in BagToSet(runs) : r.pc \in {"pipeline", "backoff"}}

NumInFlight == BagCardinality([r \in InFlight |-> runs[r]])

----------------------------------------------------------------------------
C2_AtMostOneRunInFlight == NumInFlight <= 1

(* C3: every job's retry count is at most maxRetries, and a job whose      *)
(* count has reached maxRetries has status 'failed'.                       *)
C3_RetriesBounded ==
  \A id \in InList :
    /\ job[id].retries <= maxRetries
    /\ job[id].retries >= maxRetries => job[id].status = "failed"

(* C4: 'completed' and 'failed' are terminal: a completed job never        *)
(* changes status again, and a failed job changes status only in a         *)
(* retryFailed/retryAllFailed call.                                        *)
C4_TerminalStatuses ==
  [][\A id \in InList \cap InList' :
       /\ job[id].status = "completed" => job'[id].status = "completed"
       /\ (job[id].status = "failed" /\ job'[id].status # "failed")
            => (RetryFailed(id) \/ RetryAllFailed)]_vars

(* C5: every job with status 'failed' has a retry count exactly equal to   *)
(* maxRetries (it failed exactly maxRetries times) and a non-null error.   *)
C5_FailedAfterExactlyMaxRetries ==
  \A id \in InList :
    job[id].status = "failed" =>
      job[id].retries = maxRetries /\ job[id].error # NULL

(* C6 as first stated: with the host never stopping or clearing, each of   *)
(* the three failures of a job is followed by a backoff wait of 2^k        *)
(* seconds, k the number of failures so far (2 s, 4 s, 8 s), with the      *)
(* remote client's message recorded on the job.                            *)
C6_WaitAfterEveryFailure ==
  [][\A r \in BagToSet(runs), message \in RemoteErrors :
       (PipelineFails(r, message) /\ r.item \in InList /\ stops = 0)
         => /\ job'[r.item].error = message
            /\ runs' = AddRun(RemoveRun(runs, r),
                         Run(r.item, "backoff", (2 ^ job'[r.item].retries) * 1000))]_vars

(* C6 amended: the failure that brings the retry count to k < maxRetries   *)
(* is followed by a backoff wait of 2^k seconds (2 s, then 4 s) with the   *)
(* job back in 'pending'; the failure that brings the count to maxRetries  *)
(* is followed by no wait, the job lands in 'failed' at once; either way   *)
(* the remote client's message is recorded in the job's error field.       *)
C6_BackoffThenFailed ==
  [][\A r \in BagToSet(runs), message \in RemoteErrors :
       (PipelineFails(r, message) /\ r.item \in InList)
         => LET k == job[r.item].retries + 1
                delay == IF k = 1 THEN 2000 ELSE 4000
            IN /\ job'[r.item].error = message
               /\ job'[r.item].retries = k
               /\ k < maxRetries =>
                    /\ job'[r.item].status = "pending"
                    /\ runs' = AddRun(RemoveRun(runs, r), Run(r.item, "backoff", delay))
               /\ k >= maxRetries =>
                    /\ job'[r.item].status = "failed"
                    /\ \A w \in BagToSet(runs') :
                         w.pc = "backoff" => CopiesIn(w, runs') = CopiesIn(w, runs)]_vars

C6_Witness ==
  /\ \E id \in InList :
       /\ job[id].status = "failed"
       /\ job[id].retries = maxRetries
       /\ job[id].error \in RemoteErrors
  /\ \E w \in BagToSet(runs) : w.pc = "backoff" /\ w.wait = 4000

(* C7: crash recovery.  Right after loadQueue() no job in the list is      *)
(* 'processing' or 'completed', and every job persisted as 'processing'    *)
(* whose source file still exists is in the list as 'pending' with the     *)
(* retry count it had in the file.                                         *)
C7_CrashRecovery ==
  boot.fresh =>
    /\ \A id \in InList : job[id].status \notin {"processing", "completed"}
    /\ \A i \in 1..Len(boot.data) :
         (boot.data[i].status = "processing" /\ boot.data[i].sourcePath \in boot.ex)
           => /\ boot.data[i].id \in InList
              /\ job[boot.data[i].id].status = "pending"
              /\ job[boot.data[i].id].retries = boot.data[i].retries

C7_Witness ==
  /\ boot.fresh
  /\ \E i \in 1..Len(boot.data) :
       /\ boot.data[i].status = "processing"
       /\ boot.data[i].retries > 0
       /\ boot.data[i].sourcePath \in boot.ex
       /\ boot.data[i].id \in InList
  /\ \E i \in 1..Len(boot.data) : boot.data[i].status = "completed"

(* C8: persistence round trip.  The queue file always lists the ids and    *)
(* source paths of the in-memory list, in order; and a reload of a file    *)
(* whose jobs all still have their source file and are not completed       *)
(* yields a list with exactly those ids and source paths, in that order.   *)
C8_RoundTrip ==
  /\ Len(file.data) = Len(queue)
  /\ \A i \in 1..Len(queue) :
       /\ file.data[i].id = queue[i]
       /\ file.data[i].sourcePath = job[queue[i]].sourcePath
  /\ (/\ boot.fresh
      /\ \A i \in 1..Len(boot.data) :
           boot.data[i].sourcePath \in boot.ex /\ boot.data[i].status # "completed")
       => /\ Len(queue) = Len(boot.data)
          /\ \A i \in 1..Len(boot.data) :
               /\ queue[i] = boot.data[i].id
               /\ job[queue[i]].sourcePath = boot.data[i].sourcePath

C8_Witness ==
  /\ boot.fresh
  /\ Len(boot.data) = 2
  /\ Len(queue) = 2
  /\ \A i \in 1..Len(boot.data) : boot.data[i].sourcePath \in boot.ex
  /\ job[queue[1]].sourcePath # job[queue[2]].sourcePath

(* C9: at every point where control is back in the event loop the queue    *)
(* file holds the same jobs, with the same status, retry count and error,  *)
(* as the in-memory list.                                                  *)
C9_FileMirrorsList ==
  /\ file.present => file.data = Serialize(queue, job)
  /\ ~file.present => queue = <<>>

(* C10: a job becomes 'processing' only in a state where a credential is   *)
(* set and processing is enabled; while no credential is set and nothing   *)
(* is in flight for it a pending job stays pending; and after an enqueue   *)
(* without credential getStatus() reports hasApiKey false and one more     *)
(* pending job.                                                            *)
C10_CredentialGate ==
  [][/\ \A id \in InList' :
          (job[id].status # "processing" /\ job'[id].status = "processing")
            => (apiKey' # NULL /\ processingEnabled')
     /\ \A id \in InList \cap InList' :
          (/\ apiKey = NULL /\ apiKey' = NULL
           /\ job[id].status = "pending"
           /\ ~\E r \in BagToSet(runs) : r.pc = "pipeline" /\ r.item = id)
            => job'[id].status = "pending"
     /\ (apiKey = NULL /\ AddToQueue(SourcePath(nextId)))
          => /\ job'[nextId].status = "pending"
             /\ ~getStatus(Cur)'.hasApiKey
             /\ getStatus(Cur)'.pending = getStatus(Cur).pending + 1]_vars

C10_Witness ==
  /\ apiKey = NULL
  /\ ~getStatus(Cur).hasApiKey
  /\ getStatus(Cur).pending = 1
  /\ \E id \in InList : job[id].status = "processing"
  /\ \E id \in InList : job[id].status = "pending" /\ job[id].retries = 0

----------------------------------------------------------------------------
(* Observations of the pipeline in detail *)

BothVariantsAndRemoval(o) ==
  o.outputPortrait /\ o.outputSquare /\ o.backgroundRemoval

FourOutputs ==
  {"enhancedJpegPath", "transparentPngPath",
   "enhancedSquarePath", "transparentSquarePngPath"}

ColoredOutputs == {"coloredJpegPath", "coloredSquareJpegPath"}

(* Job `id` has just been started (processNext() marked it 'processing'    *)
(* and processHeadshot read the options) with a credential set, processing *)
(* enabled, both variants and background removal enabled.                  *)
StartedWithBoth(id) ==
  /\ apiKey # NULL
  /\ processingEnabled
  /\ id \in InList
  /\ job[id].status = "processing"
  /\ pipe.item = id
  /\ pipe.todo = Plan(pipe.opts)
  /\ BothVariantsAndRemoval(pipe.opts)

(* C11 as first stated: with a credential set, processing enabled, both    *)
(* variants and background removal enabled and every step succeeding, a    *)
(* job that is started is eventually 'completed' and its output-path map   *)
(* then holds exactly four entries: portrait JPEG, portrait transparent    *)
(* PNG, square JPEG, square transparent PNG.                               *)
C11_CompletedWithFourOutputs ==
  \A id \in PipeJobIds :
    StartedWithBoth(id)
      ~> (job[id].status = "completed" /\ pipe.outputs[id] = FourOutputs)

(* C11 amended: the same holds when no solid background colour is          *)
(* configured (a hex colour adds colour-background JPEGs to the map); and  *)
(* the job goes pending -> processing -> completed: an enqueue on an idle  *)
(* scheduler with nothing else pending marks the job 'processing' at       *)
(* once, and a job becomes 'completed' only from 'processing'.             *)
C11_CompletedWithOutputs ==
  /\ \A id \in PipeJobIds :
       (StartedWithBoth(id) /\ pipe.opts.backgroundColor \notin HexColors)
         ~> (job[id].status = "completed" /\ pipe.outputs[id] = FourOutputs)
  /\ [][/\ \A id \in InList \cap InList' :
             (job[id].status # "completed" /\ job'[id].status = "completed")
               => job[id].status = "processing"
        /\ (/\ Enqueue(SourcePath(nextId))
            /\ apiKey # NULL /\ processingEnabled /\ ~processing
            /\ Pending(Cur) = {}
            /\ BothVariantsAndRemoval(pipe.opts))
             => job'[nextId].status = "processing"]_vars

C11_Witness ==
  /\ apiKey # NULL
  /\ processingEnabled
  /\ BothVariantsAndRemoval(pipe.opts)
  /\ pipe.opts.backgroundColor \notin HexColors
  /\ \E id \in InList :
       /\ job[id].status = "completed"
       /\ job[id].retries = 0
       /\ pipe.outputs[id] = FourOutputs

----------------------------------------------------------------------------
(* C12: clearQueue(clearFailed) removes every 'pending' and 'processing'   *)
(* job, removes the 'failed' jobs if and only if clearFailed is true,      *)
(* never removes a 'completed' job, and leaves the jobs it keeps, and      *)
(* their order, unchanged; with one pending, one failed and one completed  *)
(* job and clearFailed = false exactly the pending job is removed.         *)
C12_ClearQueueFrame ==
  [][\A clearFailed \in BOOLEAN :
       ClearQueue(clearFailed) =>
         LET kept == IF clearFailed THEN {"completed"} ELSE {"failed", "completed"}
             stays(id) == job[id].status \in kept
         IN /\ queue' = SelectSeq(queue, stays)
            /\ \A id \in InList :
                 /\ job[id].status \in {"pending", "processing"} => id \notin InList'
                 /\ job[id].status = "completed" => id \in InList'
                 /\ job[id].status = "failed" => (id \in InList' <=> ~clearFailed)
            /\ \A id \in InList' : job'[id] = job[id]]_vars

C12_Witness ==
  /\ stops = 1
  /\ stopRequested
  /\ processingEnabled
  /\ Len(queue) = 2
  /\ Len(file.data) = 2
  /\ job[queue[1]].status = "failed"
  /\ job[queue[2]].status = "completed"
  /\ \E id \in ListedIds : id \notin InList
----------------------------------------------------------------------------
(* Job `id` is started in this step: the scheduling loop marks it          *)
(* 'processing'.                                                           *)
StartsJob(id) ==
  id \in InList' /\ job[id].status # "processing" /\ job'[id].status = "processing"

Before(q, id) == {q[k] : k \in {i \in 1..Len(q) : \E j \in (i + 1)..Len(q) : q[j] = id}}

Behind(q, id) == {q[k] : k \in {i \in 1..Len(q) : \E j \in 1..(i - 1) : q[j] = id}}

(* C13: FIFO selection.  Whenever the scheduling loop starts a job, no job *)
(* earlier in list order is 'pending' at that moment; this holds for the   *)
(* list as reloaded from the queue file as well.                           *)
C13_FifoSelection ==
  [][\A id \in JobIds :
       StartsJob(id) => \A other \in Before(queue', id) : job'[other].status # "pending"]_vars

C13_Witness ==
  /\ Len(queue) = 2
  /\ job[queue[1]].status = "processing"
  /\ job[queue[1]].retries > 0
  /\ job[queue[2]].status = "pending"
  /\ job[queue[2]].retries = 0
  /\ NumInFlight = 1
  /\ stops = 0

(* C14: a job moved back to 'pending' after a recoverable failure is not   *)
(* prioritized: when it is started again, no job behind it in the list is  *)
(* still waiting for its first attempt.                                    *)
C14_RetriedJobNotServedFirst ==
  [][\A id \in JobIds :
       (StartsJob(id) /\ id \in InList /\ job[id].status = "pending"
          /\ job[id].retries > 0 /\ stops = 0)
         => \A other \in Behind(queue, id) :
              ~(job[other].status = "pending" /\ job[other].retries = 0)]_vars
(* C15: stopProcessing() disables processing, and while processing is      *)
(* disabled no job goes from 'pending' to 'processing' and the flag stays  *)
(* off in every step other than setProcessingEnabled(true) (and a restart  *)
(* of the application): addToQueue, setApiKey, retryFailed, retryAllFailed *)
(* and the continuations of the loop start nothing.                        *)
C15_NothingStartsWhileStopped ==
  [][/\ StopProcessing => ~processingEnabled'
     /\ (/\ ~processingEnabled
         /\ ~SetProcessingEnabled(TRUE)
         /\ ~\E ex \in SUBSET Referenced(file.data) : Restart(ex))
          => /\ ~processingEnabled'
             /\ \A id \in JobIds : ~StartsJob(id)]_vars

C15_Witness ==
  /\ stops = 1
  /\ ~processingEnabled
  /\ ~stopRequested
  /\ apiKey # NULL
  /\ ~processing
  /\ runs = EmptyBag
  /\ Len(queue) = 2
  /\ \A id \in InList : job[id].status = "pending"
  /\ \E id \in InList : job[id].retries = 0 /\ job[id].error # NULL

(* C16: a job that stopProcessing() found in flight is reverted to         *)
(* 'pending' at once, and a 'pending' job in the list only ever leaves     *)
(* 'pending' by being started: it is not marked 'completed' or 'failed'    *)
(* by the run that was abandoned.                                          *)
C16_RevertedJobStaysPending ==
  [][/\ (StopProcessing /\ processing /\ currentItem \in InList)
          => job'[currentItem].status = "pending"
     /\ \A id \in InList \cap InList' :
          job[id].status = "pending" => job'[id].status \in {"pending", "processing"}]_vars
----------------------------------------------------------------------------
(* The jobs of the list, other than those in `except`, and the order of    *)
(* the list are the same before and after the step.                        *)
SameJobsExcept(except) ==
  /\ queue' = queue
  /\ \A id \in InList \ except : job'[id] = job[id]

(* The one job, if any, that the kick at the end of a handler starts: the  *)
(* scheduling loop starts only from an idle, enabled scheduler that has a  *)
(* credential.                                                             *)
Kicked ==
  {id \in InList' : StartsJob(id) /\ ~processing /\ processingEnabled /\ apiKey # NULL}

(* A job as retryFailed leaves it, in the given status.                    *)
Retried(j, status) ==
  [j EXCEPT !.status = status, !.retries = 0, !.error = NULL]

(* C17 as first stated: retryFailed(jobId) changes only the job with that  *)
(* id, and only if it is 'failed', to status 'pending', retry count 0,     *)
(* error null; it is a no-op otherwise; retryAllFailed() does the same to  *)
(* exactly the failed jobs.                                                *)
C17_RetryChangesOnlyFailed ==
  [][/\ \A itemId \in JobIds :
          RetryFailed(itemId) =>
            IF itemId \in InList /\ job[itemId].status = "failed"
            THEN /\ job'[itemId] = Retried(job[itemId], "pending")
                 /\ SameJobsExcept({itemId})
            ELSE Cur' = Cur
     /\ RetryAllFailed =>
          LET failed == {id \in InList : job[id].status = "failed"}
          IN /\ \A id \in failed : job'[id] = Retried(job[id], "pending")
             /\ SameJobsExcept(failed)]_vars

(* C17 amended: the reset is followed by the kick of the scheduler in the  *)
(* same call, so on return a reset job is 'pending', or 'processing' if    *)
(* the kick started it, with retry count 0 and error null; every other job *)
(* is unchanged except the at most one pending job that the kick started;  *)
(* retryFailed of an unknown id or of a job that is not 'failed' changes   *)
(* nothing at all.                                                         *)
C17_RetryResetsAndKicks ==
  [][/\ \A itemId \in JobIds :
          RetryFailed(itemId) =>
            IF itemId \in InList /\ job[itemId].status = "failed"
            THEN /\ job'[itemId] \in {Retried(job[itemId], "pending"),
                                      Retried(job[itemId], "processing")}
                 /\ SameJobsExcept({itemId} \cup Kicked)
                 /\ Cardinality(Kicked) <= 1
                 /\ \A id \in Kicked \ {itemId} :
                      job'[id] = [job[id] EXCEPT !.status = "processing"]
            ELSE Cur' = Cur
     /\ RetryAllFailed =>
          LET failed == {id \in InList : job[id].status = "failed"}
          IN /\ \A id \in failed :
                  job'[id] \in {Retried(job[id], "pending"),
                                Retried(job[id], "processing")}
             /\ SameJobsExcept(failed \cup Kicked)
             /\ Cardinality(Kicked) <= 1
             /\ \A id \in Kicked \ failed :
                  job'[id] = [job[id] EXCEPT !.status = "processing"]]_vars

C17_Witness ==
  /\ Len(queue) = 3
  /\ apiKey # NULL
  /\ processing
  /\ job[queue[1]] = Retried(job[queue[1]], "pending")
  /\ job[queue[2]].status = "failed"
  /\ job[queue[2]].retries = maxRetries
  /\ job[queue[3]].status = "processing"
  /\ currentItem = queue[3]
  /\ file.data[1].status = "pending"

(* C18: clearCompleted() removes exactly the jobs whose status is          *)
(* 'completed' and leaves every other job, and the order of the others,    *)
(* unchanged.                                                              *)
C18_ClearCompletedFrame ==
  [][ClearCompleted =>
       LET stays(id) == job[id].status # "completed"
       IN /\ queue' = SelectSeq(queue, stays)
          /\ \A id \in InList' : job'[id] = job[id]
          /\ \A id \in InList : id \in InList' <=> job[id].status # "completed"]_vars

C18_Witness ==
  /\ Len(queue) = 2
  /\ queue[1] < queue[2]
  /\ nextId = MaxListed + 1
  /\ job[queue[1]].status = "failed"
  /\ job[queue[2]].status = "pending"
  /\ Len(file.data) = 2
  /\ ~stopRequested
  /\ stops = 0
(* C19: addToQueue appends one new job, 'pending' with retry count 0 and   *)
(* null error, at the end of the list, leaves the existing jobs and their  *)
(* order unchanged, returns without waiting for any processing (no job is  *)
(* completed or failed by the call: at most one pipeline run is left       *)
(* awaited), and the scheduling loop starts a job in the call only if the  *)
(* scheduler was idle, processing enabled and a credential set; the loop   *)
(* then marks the first pending job, possibly the new one, 'processing'.   *)
C19_AddToQueueFrame ==
  [][\A item \in {SourcePath(nextId)} :
       AddToQueue(item) =>
         LET started == {id \in InList' : StartsJob(id)}
             loopRuns == ~processing /\ processingEnabled /\ apiKey # NULL
         IN /\ queue' = Append(queue, nextId)
            /\ nextId \notin InList
            /\ job'[nextId].sourcePath = item
            /\ job'[nextId].retries = 0
            /\ job'[nextId].error = NULL
            /\ job'[nextId].status \in {"pending", "processing"}
            /\ job'[nextId].status = "processing" => nextId \in started
            /\ \A id \in InList \ started : job'[id] = job[id]
            /\ \A id \in InList \cap started :
                 /\ job[id].status = "pending"
                 /\ job'[id] = [job[id] EXCEPT !.status = "processing"]
            /\ started # {} => loopRuns
            /\ loopRuns => started = {currentItem'}
            /\ Cardinality(started) <= 1
            /\ processing' = (processing \/ started # {})
            /\ \/ started = {} /\ runs' = runs
               \/ \E id \in started : runs' = AddRun(runs, Run(id, "pipeline", 0))]_vars

C19_Witness ==
  /\ queue = <<1, 2>>
  /\ nextId = 3
  /\ job[1].status = "failed"
  /\ job[2] = [NewJob(SourcePath(2)) EXCEPT !.status = "processing"]
  /\ currentItem = 2
  /\ runs = SetToBag({Run(2, "pipeline", 0)})
  /\ file.data[2].status = "processing"
(* The scheduler against a pipeline that always throws: the host enqueues, *)
(* sets the credential, stops and re-enables; every awaited pipeline run   *)
(* rejects.  The awaited promise settles, the backoff timer fires and the  *)
(* setImmediate callback runs: weak fairness of the three continuations.   *)
FailingNext ==
  \/ \E item \in {SourcePath(nextId)} : AddToQueue(item)
  \/ \E key \in ApiKeys : SetApiKey(key)
  \/ \E enabled \in BOOLEAN : SetProcessingEnabled(enabled)
  \/ StopProcessing
  \/ \E r \in BagToSet(runs), message \in RemoteErrors : PipelineFails(r, message)
  \/ \E r \in BagToSet(runs) : BackoffElapses(r)
  \/ \E r \in BagToSet(runs) : Immediate(r)

FailingSpec == Init /\ [][FailingNext]_vars

FailingFair ==
  /\ FailingSpec
  /\ WF_vars(\E r \in BagToSet(runs), message \in RemoteErrors : PipelineFails(r, message))
  /\ WF_vars(\E r \in BagToSet(runs) : BackoffElapses(r))
  /\ WF_vars(\E r \in BagToSet(runs) : Immediate(r))

(* What the end of a scheduling pass, reached from the suspended run r,    *)
(* leaves: the scheduler idle, and the next pass scheduled unless a stop   *)
(* was requested, in which case the request is consumed.                   *)
ReturnsToIdle(r) ==
  /\ ~processing'
  /\ currentItem' = 0
  /\ ~stopRequested'
  /\ runs' = IF stopRequested THEN RemoveRun(runs, r)
             ELSE AddRun(RemoveRun(runs, r), ImmediateRun)

(* C20: whatever exception the pipeline throws, the scheduling pass that   *)
(* awaits it records it on the job (error message set, retry count         *)
(* incremented, job 'pending' again or 'failed' at the maximum), then,     *)
(* after the backoff wait if the job is to be retried, returns the         *)
(* scheduler to idle and, unless a stop was requested, schedules the next  *)
(* pass; the scheduler is never marked as processing without a suspended   *)
(* pass that will clear the mark.                                          *)
C20_FailureCaughtAtScheduler ==
  /\ [](processing => NumInFlight >= 1)
  /\ processing ~> ~processing
  /\ [][/\ \A r \in BagToSet(runs), message \in RemoteErrors :
             PipelineFails(r, message) =>
               LET n == job[r.item].retries + 1
               IN /\ r.item \in InList =>
                       /\ r.item \in InList'
                       /\ job'[r.item].error = message
                       /\ job'[r.item].retries = n
                       /\ job'[r.item].status =
                            (IF n >= maxRetries THEN "failed" ELSE "pending")
                  /\ IF n >= maxRetries
                     THEN ReturnsToIdle(r)
                     ELSE /\ runs' = AddRun(RemoveRun(runs, r),
                                            Run(r.item, "backoff", (2 ^ n) * 1000))
                          /\ processing' = processing
                          /\ stopRequested' = stopRequested
        /\ \A r \in BagToSet(runs) : BackoffElapses(r) => ReturnsToIdle(r)]_vars

C20_Witness ==
  /\ queue = <<1>>
  /\ job[1].status = "pending"
  /\ job[1].retries = 2
  /\ job[1].error \in RemoteErrors
  /\ ~processing
  /\ currentItem = 0
  /\ stops = 0
  /\ runs = SetToBag({ImmediateRun})
----------------------------------------------------------------------------
Variants == {"portrait", "square"}

(* C21: when a remote enhancement step or a result download of either     *)
(* variant reports failure, the pipeline run ends there: the error thrown  *)
(* names that step and variant (no other step has the same message), no    *)
(* later step of the run is executed, no output path is recorded on the    *)
(* job and the job is 'pending' or 'failed', not 'completed'; a job        *)
(* becomes 'completed' only when the last step of its run is over, having  *)
(* succeeded or being the colour compositing, whose failure is ignored.    *)
C21_StepFailureFailsJob ==
  [][/\ (StepFails /\ Head(pipe.todo).kind \in RemoteKinds) =>
          LET st == Head(pipe.todo)
              id == pipe.item
          IN /\ job'[id].error = Thrown(st)
             /\ job'[id].retries = job[id].retries + 1
             /\ \A v \in Variants, k \in RemoteKinds :
                  Step(v, k) # st => Thrown(Step(v, k)) # Thrown(st)
             /\ job'[id].status \in {"pending", "failed"}
             /\ pipe'.item = 0
             /\ pipe'.todo = <<>>
             /\ pipe'.outputs = pipe.outputs
     /\ \A id \in PipeJobIds :
          (job[id].status # "completed" /\ job'[id].status = "completed") =>
            /\ StepSucceeds \/ (StepFails /\ Head(pipe.todo).kind = "addBackgroundColor")
            /\ pipe.item = id
            /\ Len(pipe.todo) = 1]_vars

C21_Witness ==
  /\ job[1].status = "pending"
  /\ job[1].retries = 1
  /\ job[1].error = Thrown(Step("square", "downloadUpscale"))
  /\ pipe.item = 0
  /\ pipe.outputs[1] = {}
  /\ ~pipe.healthy
----------------------------------------------------------------------------
(* The remote client driven by its caller and by the network.  The        *)
(* scheduler does not move here; a client makes at most MaxSubmissions     *)
(* submissions (a pipeline run makes at most eight).                       *)

Settings == {"off", "medium"}

NetworkErrors == {"connect ECONNREFUSED"}

RemoteDetails == {"Invalid version or not permitted"}

RemoteReported == {NULL, "CUDA out of memory"}

SchedulerIdle ==
  UNCHANGED <<queue, job, file, processing, currentItem, apiKey,
              processingEnabled, stopRequested, runs, nextId, stops, boot, pipe,
              crop, wb, notified>>

Call(op, setting) ==
  /\ client.pc \in {"idle", "returned"}
  /\ op \in RemoteOps => client.submissions < MaxSubmissions
  /\ client' = call(client, op, setting)
  /\ SchedulerIdle

(* imageToDataUri reads the file through sharp and may throw *)
ImageToDataUri(error) ==
  /\ client.pc = "imageToDataUri"
  /\ client' = IF error = NULL THEN [client EXCEPT !.pc = "waitForRateLimit"]
               ELSE catch(client, error)
  /\ SchedulerIdle

WaitForRateLimit ==
  /\ client.pc = "waitForRateLimit"
  /\ client' = waitForRateLimit(client)
  /\ SchedulerIdle

(* axios.post is issued; it answers with the prediction, or throws with a  *)
(* remote detail or with a network error                                   *)
Post(error) ==
  /\ client.pc = "post"
  /\ LET c == [client EXCEPT !.sinceSubmission = 0, !.submissions = @ + 1]
     IN client' = IF error = NULL THEN [c EXCEPT !.pc = "poll"] ELSE catch(c, error)
  /\ SchedulerIdle

Poll(status, error) ==
  /\ client.pc = "poll"
  /\ client' = waitForPrediction(client, status, error)
  /\ SchedulerIdle

(* axios.get of the status throws: waitForPrediction does not catch it,    *)
(* the operation does                                                      *)
PollThrows(error) ==
  /\ client.pc = "poll"
  /\ client' = catch([client EXCEPT !.polls = @ + 1], error)
  /\ SchedulerIdle

Download(error) ==
  /\ client.pc = "download"
  /\ client' = IF error = NULL THEN returns(client, Result(TRUE, NULL, NULL, FALSE))
               ELSE catch(client, error)
  /\ SchedulerIdle

(* Time passes while the client awaits or is not in a call.  There is no   *)
(* await between `this.lastRequestTime = Date.now()` and the axios.post    *)
(* that follows the awaited waitForRateLimit(): the request is issued in   *)
(* the same turn of the event loop.                                        *)
Elapse ==
  /\ client.pc # "post"
  /\ client.timeSinceLastRequest < MIN_REQUEST_INTERVAL_MS
       \/ client.sinceSubmission < MIN_REQUEST_INTERVAL_MS
  /\ client' = [client EXCEPT !.timeSinceLastRequest = Saturate(@ + Quantum),
                              !.sinceSubmission = Saturate(@ + Quantum)]
  /\ SchedulerIdle

ClientNext ==
  \/ \E op \in ClientOps, setting \in Settings : Call(op, setting)
  \/ \E error \in {NULL, "Input file is missing"} : ImageToDataUri(error)
  \/ WaitForRateLimit
  \/ \E error \in {NULL} \cup RemoteDetails \cup NetworkErrors : Post(error)
  \/ \E status \in {"succeeded", "failed", "canceled"} \cup NonTerminal,
        error \in RemoteReported : Poll(status, error)
  \/ \E error \in NetworkErrors : PollThrows(error)
  \/ \E error \in {NULL} \cup NetworkErrors : Download(error)
  \/ Elapse

ClientSpec == Init /\ [][ClientNext]_vars

(* Fairness: a request that was issued is answered or fails. *)
ClientFair ==
  /\ ClientSpec
  /\ WF_vars(\/ \E status \in {"succeeded", "failed", "canceled"} \cup NonTerminal,
                  error \in RemoteReported : Poll(status, error)
             \/ \E error \in NetworkErrors : PollThrows(error))

(* One pipeline run after the other: processHeadshot constructs its own    *)
(* client once the calls of the run before it have returned.               *)
ProcessHeadshotConstructsClient ==
  /\ client.pc \in {"idle", "returned"}
  /\ client' = ReplicateClient(client.sinceSubmission)
  /\ SchedulerIdle

PipelineRunsNext ==
  \/ ProcessHeadshotConstructsClient
  \/ \E op \in ClientOps, setting \in Settings : Call(op, setting)
  \/ \E error \in {NULL, "Input file is missing"} : ImageToDataUri(error)
  \/ WaitForRateLimit
  \/ \E error \in {NULL} \cup RemoteDetails \cup NetworkErrors : Post(error)
  \/ \E status \in {"succeeded", "failed", "canceled"} \cup NonTerminal,
        error \in RemoteReported : Poll(status, error)
  \/ \E error \in NetworkErrors : PollThrows(error)
  \/ \E error \in {NULL} \cup NetworkErrors : Download(error)
  \/ Elapse

PipelineRunsSpec == Init /\ [][PipelineRunsNext]_vars
----------------------------------------------------------------------------
SuccessResults ==
  {Result(TRUE, url, NULL, skipped) : url \in {NULL, OutputUrl}, skipped \in BOOLEAN}

FailureMessages ==
  NetworkErrors \cup RemoteDetails \cup (RemoteReported \ {NULL})
  \cup {"Input file is missing", "Prediction failed",
        "Timeout waiting for prediction (150s)"}

FailureResults == {Result(FALSE, NULL, error, FALSE) : error \in FailureMessages}

(* C22: every operation of the remote client returns a success result or  *)
(* a {success: false, error} result, whatever happens at reading the       *)
(* input, at submission, at any poll or at download: an exception at any   *)
(* of them ends the call with a failure result carrying its message, and   *)
(* no call ever throws to its caller.                                      *)
C22_ClientNeverThrows ==
  /\ [](client.pc # "thrown")
  /\ [](client.pc = "returned" => client.result \in SuccessResults \cup FailureResults)
  /\ [][\A error \in FailureMessages :
          (\/ ImageToDataUri(error)
           \/ Post(error)
           \/ PollThrows(error)
           \/ Download(error)) =>
            /\ client'.pc = "returned"
            /\ client'.result = Result(FALSE, NULL, error, FALSE)]_vars

C22_Witness ==
  /\ client.pc = "returned"
  /\ client.op = "smoothSkin"
  /\ client.polls = 3
  /\ client.result = Result(FALSE, NULL, "connect ECONNREFUSED", FALSE)
(* C23: the poll loop makes at most maxAttempts status polls; the first    *)
(* 'succeeded' answer makes it return success with the output URL, the     *)
(* first 'failed' or 'canceled' answer failure with the error the remote   *)
(* reported, and maxAttempts answers that were all non-terminal a timeout  *)
(* failure; a loop that polls always comes to its end.                     *)
C23_PollLoopTerminates ==
  /\ [](client.polls <= maxAttempts)
  /\ [](client.pc = "poll" => client.polls = client.i /\ client.i < maxAttempts)
  /\ [][\A status \in {"succeeded", "failed", "canceled"} \cup NonTerminal,
          error \in RemoteReported :
          Poll(status, error) =>
            /\ client'.polls = client.polls + 1
            /\ status = "succeeded" =>
                 /\ client'.pc = "returned"
                 /\ client'.prediction = Result(TRUE, OutputUrl, NULL, FALSE)
            /\ (status \in {"failed", "canceled"} /\ error # NULL) =>
                 /\ client'.pc = "returned"
                 /\ client'.prediction = Result(FALSE, NULL, error, FALSE)
            /\ (status \in {"failed", "canceled"} /\ error = NULL) =>
                 /\ client'.pc = "returned"
                 /\ client'.prediction.success = FALSE
                 /\ client'.prediction.error # NULL
            /\ (status \in NonTerminal /\ client.polls + 1 = maxAttempts) =>
                 /\ client'.pc = "returned"
                 /\ client'.prediction =
                      Result(FALSE, NULL, "Timeout waiting for prediction (150s)", FALSE)
            /\ (status \in NonTerminal /\ client.polls + 1 < maxAttempts) =>
                 /\ client'.pc = "poll"
                 /\ client'.prediction = NoResult]_vars
  /\ (client.pc = "poll") ~> (client.pc = "returned")

C23_Witness ==
  /\ client.pc = "returned"
  /\ client.polls = maxAttempts
  /\ client.prediction = Result(FALSE, NULL, "Timeout waiting for prediction (150s)", FALSE)
  /\ client.result = client.prediction
(* C24: for one client used sequentially, a submission is issued at least *)
(* MIN_REQUEST_INTERVAL_MS after the previous submission of that client,   *)
(* whichever the operations are and however they ended.                    *)
C24_SubmissionsSpaced ==
  [][\A error \in {NULL} \cup RemoteDetails \cup NetworkErrors :
       (Post(error) /\ client.submissions > 0) =>
         client.sinceSubmission >= MIN_REQUEST_INTERVAL_MS]_vars

C24_Witness ==
  /\ client.submissions = 2
  /\ client.pc = "poll"
  /\ client.op = "removeBackground"
  /\ client.sinceSubmission = 0
  /\ client.timeSinceLastRequest = 0
----------------------------------------------------------------------------
(* The smart crop applied to a drawn geometry: an image of up to MaxSide   *)
(* pixels a side, an estimated face height of up to MaxFaceTenths tenths   *)
(* of a pixel, a face centre from half a pixel outside the image on one    *)
(* side to half a pixel outside on the other, and either target ratio.     *)

FaceData ==
  [imageWidth : 1..MaxSide, imageHeight : 1..MaxSide,
   faceCenterX2 : -1..(2 * MaxSide + 1), faceCenterY2 : -1..(2 * MaxSide + 1),
   estimatedFaceHeight10 : 0..MaxFaceTenths]

CropInit ==
  /\ queue = <<>>
  /\ job = [id \in JobIds |-> NoJob]
  /\ file = [present |-> FALSE, data |-> <<>>]
  /\ processing = FALSE
  /\ currentItem = 0
  /\ apiKey = NULL
  /\ processingEnabled = TRUE
  /\ stopRequested = FALSE
  /\ runs = EmptyBag
  /\ nextId = 1
  /\ stops = 0
  /\ boot = Booted(<<>>, {})
  /\ pipe = NewPipe
  /\ client = NewClient
  /\ wb = NoWb
  /\ notified = NotNotified
  /\ \E faceData \in FaceData, aspectRatio \in AspectRatios :
       /\ faceData.faceCenterX2 <= 2 * faceData.imageWidth + 1
       /\ faceData.faceCenterY2 <= 2 * faceData.imageHeight + 1
       /\ crop = [pc |-> "detected", faceData |-> faceData, aspectRatio |-> aspectRatio]

ApplySmartCropAndCorrection ==
  /\ crop.pc = "detected"
  /\ crop' = [faceData |-> crop.faceData, aspectRatio |-> crop.aspectRatio]
             @@ applySmartCropAndCorrection(crop.faceData, crop.aspectRatio)
  /\ UNCHANGED <<queue, job, file, processing, currentItem, apiKey,
                 processingEnabled, stopRequested, runs, nextId, stops, boot, pipe,
                 client, wb, notified>>

CropNext == ApplySmartCropAndCorrection

CropSpec == CropInit /\ [][CropNext]_vars

(* C25: the emitted crop rectangle lies fully inside the image, for every  *)
(* image size, face height, face centre (also outside the image) and both  *)
(* target ratios.                                                          *)
C25_CropInsideImage ==
  crop.pc = "cropped" =>
    /\ 0 <= crop.left
    /\ crop.left + crop.width <= crop.faceData.imageWidth
    /\ 0 <= crop.top
    /\ crop.top + crop.height <= crop.faceData.imageHeight
    /\ crop.width >= 0
    /\ crop.height >= 0

(* the face centre is beyond the right and bottom edges and the crop box   *)
(* is smaller than the image: the box was moved back inside                *)
C25_Witness ==
  /\ crop.pc = "cropped"
  /\ crop.faceData.imageWidth = MaxSide
  /\ crop.faceData.imageHeight = MaxSide
  /\ crop.faceData.faceCenterX2 = 2 * MaxSide + 1
  /\ crop.faceData.faceCenterY2 = 2 * MaxSide + 1
  /\ crop.width = 2
  /\ crop.left = MaxSide - 2
  /\ crop.top + crop.height = MaxSide

(* C26: the emitted crop is exactly square for the 1:1 target, and for the *)
(* 4:5 target its width differs from 0.8 times its height by less than one *)
(* pixel (the two roundings), also when the box was scaled down to the     *)
(* image or clamped.                                                       *)
C26_CropKeepsAspectRatio ==
  crop.pc = "cropped" =>
    /\ crop.aspectRatio = SQUARE_ASPECT_RATIO => crop.width = crop.height
    /\ crop.aspectRatio = HEADSHOT_ASPECT_RATIO =>
         /\ 5 * crop.width - 4 * crop.height < 5
         /\ 4 * crop.height - 5 * crop.width < 5

(* a 4:5 crop scaled down to the width of a narrow image *)
C26_Witness ==
  /\ crop.pc = "cropped"
  /\ crop.aspectRatio = HEADSHOT_ASPECT_RATIO
  /\ crop.faceData.imageWidth = 3
  /\ crop.faceData.imageHeight = 5
  /\ crop.faceData.estimatedFaceHeight10 = MaxFaceTenths
  /\ crop.width = 3
  /\ crop.height = 4
----------------------------------------------------------------------------
(* The white balance computed for drawn highlight averages: each channel   *)
(* average is one of HighlightLevels (0 is a black highlight, 255 a blown  *)
(* one), or the image cannot be read.                                      *)

HighlightLevels == {0, 51, 102, 153, 204, 255}

WbInit ==
  /\ queue = <<>>
  /\ job = [id \in JobIds |-> NoJob]
  /\ file = [present |-> FALSE, data |-> <<>>]
  /\ processing = FALSE
  /\ currentItem = 0
  /\ apiKey = NULL
  /\ processingEnabled = TRUE
  /\ stopRequested = FALSE
  /\ runs = EmptyBag
  /\ nextId = 1
  /\ stops = 0
  /\ boot = Booted(<<>>, {})
  /\ pipe = NewPipe
  /\ client = NewClient
  /\ crop = NoCrop
  /\ notified = NotNotified
  /\ \E hR \in HighlightLevels, hG \in HighlightLevels, hB \in HighlightLevels,
        readable \in BOOLEAN :
       wb = [pc |-> "sampled", hR |-> hR, hG |-> hG, hB |-> hB, readable |-> readable]

CalculateWhiteBalance ==
  /\ wb.pc = "sampled"
  /\ wb' = [pc |-> "done", hR |-> wb.hR, hG |-> wb.hG, hB |-> wb.hB,
            readable |-> wb.readable]
           @@ calculateWhiteBalance(wb.hR, wb.hG, wb.hB, wb.readable)
  /\ UNCHANGED <<queue, job, file, processing, currentItem, apiKey,
                 processingEnabled, stopRequested, runs, nextId, stops, boot, pipe,
                 client, crop, notified>>

WbNext == CalculateWhiteBalance

WbSpec == WbInit /\ [][WbNext]_vars

(* x is a number with lo <= x <= hi *)
Within(x, lo, hi) == x.kind = "num" /\ ~Less(x, lo) /\ ~Less(hi, x)

(* C27: for every highlight average that was computed from the image,     *)
(* also one with one or all channels 0, each of the three factors lies in  *)
(* [0.95, 1.05] when the highlight brightness exceeds 220 and in           *)
(* [0.85, 1.15] otherwise, and the matrix is the diagonal of the factors.  *)
C27_FactorsWithinClampBand ==
  (wb.pc = "done" /\ wb.readable) =>
    LET bright == wb.hR + wb.hG + wb.hB > 3 * HighlightThreshold
        lo == IF bright THEN Num(95, 100) ELSE Num(85, 100)
        hi == IF bright THEN Num(105, 100) ELSE Num(115, 100)
    IN /\ Within(wb.factors.r, lo, hi)
       /\ Within(wb.factors.g, lo, hi)
       /\ Within(wb.factors.b, lo, hi)
       /\ wb.matrix = Diagonal(wb.factors.r, wb.factors.g, wb.factors.b)
----------------------------------------------------------------------------
(* C28: when saliency detection or the reading of the image metadata fails *)
(* during a pipeline run (detectFaceAndCrop rejects), the run goes on to   *)
(* its next step with the identity colour transform and the job is not     *)
(* touched: the attempt is not aborted.                                    *)
C28_DetectionFailureFallsBack ==
  [][\A message \in LibraryErrors :
       (LocalStepFails(message) /\ Head(pipe.todo).kind = "detectFaceAndCrop") =>
         /\ pipe'.item = pipe.item
         /\ pipe'.todo = Tail(pipe.todo)
         /\ job' = job
         /\ wb'.pc = "done"
         /\ wb'.matrix = Diagonal(One, One, One)]_vars

(* C29: while a job is running, a setEnhancementOptions call changes       *)
(* neither the job nor the steps its run has left, nor the steps the run   *)
(* goes on to after the step it awaits: the run keeps the options it       *)
(* started with.                                                           *)
C29_RunningJobKeepsItsOptions ==
  /\ [](pipe.item # 0 =>
          \A options \in OptionPatches :
            stepSucceeds(Cur, setEnhancementOptions(pipe, options), Head(pipe.todo)).p.todo
              = stepSucceeds(Cur, pipe, Head(pipe.todo)).p.todo)
  /\ [][\A options \in OptionPatches :
          (SetEnhancementOptions(options) /\ pipe.item # 0) =>
            /\ pipe'.item = pipe.item
            /\ pipe'.todo = pipe.todo
            /\ job' = job]_vars
----------------------------------------------------------------------------
(* The failed-items listing *)

(* path.basename(file, path.extname(file)) for a three-letter extension *)
BaseNameOf(sourcePath) == SubSeq(sourcePath, 1, Len(sourcePath) - 4)

FailedItem(id, j) ==
  [id |-> id, baseName |-> BaseNameOf(j.sourcePath), error |-> j.error,
   retries |-> j.retries]

getFailedItems(s) ==
  LET failed == Keep(s.queue, s.job, {"failed"})
  IN [i \in 1..Len(failed) |-> FailedItem(failed[i], s.job[failed[i]])]

----------------------------------------------------------------------------
(* Output file names.  processHeadshot joins a folder of the variant with  *)
(* a file name made from the job's base name; the README documents the     *)
(* name of each kind of output; the host's upload hook classifies a file   *)
(* by its name.                                                            *)

MainKeys ==
  {"enhancedJpegPath", "transparentPngPath", "enhancedSquarePath",
   "transparentSquarePngPath"}

Folder(key) ==
  CASE key \in {"enhancedJpegPath", "coloredJpegPath"} -> "4x5"
    [] key = "transparentPngPath" -> "4x5_transparent"
    [] key \in {"enhancedSquarePath", "coloredSquareJpegPath"} -> "square"
    [] key = "transparentSquarePngPath" -> "square_transparent"

FileName(key, baseName) ==
  CASE key \in {"enhancedJpegPath", "enhancedSquarePath"} -> baseName \o ".jpg"
    [] key \in {"transparentPngPath", "transparentSquarePngPath"} -> baseName \o ".png"
    [] key \in {"coloredJpegPath", "coloredSquareJpegPath"} -> baseName \o "_colored.jpg"

(* path.join(folder, name); path.basename of it is `name` *)
OutputPath(key, baseName) ==
  [folder |-> Folder(key), name |-> FileName(key, baseName)]

(* the value of the job's field `key` *)
RecordedPath(id, key) == OutputPath(key, BaseNameOf(job[id].sourcePath))

DocumentedSuffix(key) ==
  CASE key = "enhancedJpegPath" -> "-4x5.jpg"
    [] key = "transparentPngPath" -> "-4x5-TP.png"
    [] key = "enhancedSquarePath" -> "-SQR.jpg"
    [] key = "transparentSquarePngPath" -> "-SQR-TP.png"

includes(filename, pattern) ==
  \E i \in 1..(Len(filename) - Len(pattern) + 1) :
    SubSeq(filename, i, i + Len(pattern) - 1) = pattern

isPortrait(filename) == includes(filename, "-4x5.") /\ ~includes(filename, "-TP.")

isSquare(filename) == includes(filename, "-SQR.") /\ ~includes(filename, "-TP.")

isTransparent(filename) == includes(filename, "-TP.")

(* C30: every one of the four output paths recorded on a job has the file  *)
(* name <base name><documented suffix of its kind>; the recorded file      *)
(* names of one job are pairwise distinct; and the upload filter takes the *)
(* portrait JPEG, and only it, for a portrait, the square JPEG, and only   *)
(* it, for a square, and the two PNGs, and only them, for transparent.     *)
C30_OutputNamesFollowConvention ==
  \A id \in JobIds :
    job[id].sourcePath # NULL =>
      \A key \in pipe.outputs[id] \cap MainKeys :
        LET filename == RecordedPath(id, key).name
        IN /\ filename = BaseNameOf(job[id].sourcePath) \o DocumentedSuffix(key)
           /\ \A other \in (pipe.outputs[id] \cap MainKeys) \ {key} :
                RecordedPath(id, other).name # filename
           /\ isPortrait(filename) <=> key = "enhancedJpegPath"
           /\ isSquare(filename) <=> key = "enhancedSquarePath"
           /\ isTransparent(filename) <=>
                key \in {"transparentPngPath", "transparentSquarePngPath"}
----------------------------------------------------------------------------
(* C31: the job's output paths are populated as the steps succeed: when a  *)
(* step of a run throws, the job record holds the paths of the outputs the *)
(* run produced before that step.                                          *)
C31_OutputsPopulatedIncrementally ==
  [][(StepFails /\ Head(pipe.todo).kind \in RemoteKinds) =>
       pipe'.outputs[pipe.item] = pipe.outputs[pipe.item] \cup pipe.results]_vars
----------------------------------------------------------------------------
(* C32: every step that changes a value reported by getStatus() (a count,  *)
(* the current job, the credential flag, the enabled flag) has handed the  *)
(* up-to-date summary to the status-update callback when it returns to the *)
(* event loop.                                                             *)
C32_StatusChangesNotified ==
  [][(getStatus(Cur)' # getStatus(Cur) /\ ~boot'.fresh) =>
       notified' = getStatus(Cur)']_vars
----------------------------------------------------------------------------
(* C33: a failing attempt removes no job from the list, and a job that is  *)
(* in the list with status 'failed' is still listed by getFailedItems(),   *)
(* with its id, base name, last error and retry count, after every step    *)
(* other than a retry of it, a clearQueue(true) or a restart.              *)
C33_FailedJobsStayListed ==
  /\ [][\A r \in BagToSet(runs), message \in RemoteErrors :
          PipelineFails(r, message) => queue' = queue]_vars
  /\ [][\A id \in JobIds :
          (InQueue(Cur, id) /\ job[id].status = "failed" /\ ~boot'.fresh) =>
            \/ \E i \in DOMAIN getFailedItems(Cur)' :
                 getFailedItems(Cur)'[i] = FailedItem(id, job[id])
            \/ RetryFailed(id)
            \/ RetryAllFailed
            \/ ClearQueue(TRUE)]_vars

----------------------------------------------------------------------------
(* The place of a step in the order the specification gives: detection,    *)
(* then the portrait variant, then the square variant; within a variant    *)
(* crop, face enhancement, skin smoothing, upscaling (each followed by its *)
(* download), save of the final JPEG, background removal.                  *)
StepRank(st) ==
  (CASE st.variant = "both" -> 0
     [] st.variant = "portrait" -> 100
     [] st.variant = "square" -> 200)
  + (CASE st.kind = "detectFaceAndCrop" -> 0
       [] st.kind = "crop" -> 1
       [] st.kind = "enhanceFace" -> 2
       [] st.kind = "downloadEnhanced" -> 3
       [] st.kind = "smoothSkin" -> 4
       [] st.kind = "downloadSkin" -> 5
       [] st.kind = "upscaleImage" -> 6
       [] st.kind = "downloadUpscale" -> 7
       [] st.kind = "saveFinal" -> 8
       [] st.kind = "removeBackground" -> 9
       [] st.kind = "downloadPng" -> 10
       [] st.kind = "addBackgroundColor" -> 11)

(* the step is enabled by the options *)
StepEnabled(opts, st) ==
  /\ st.variant = "portrait" => opts.outputPortrait
  /\ st.variant = "square" => opts.outputSquare
  /\ st.kind = "detectFaceAndCrop" <=> st.variant = "both"
  /\ st.kind \in {"enhanceFace", "downloadEnhanced"} => opts.faceEnhancement # "off"
  /\ st.kind \in {"smoothSkin", "downloadSkin"} => opts.skinSmoothing # "off"
  /\ st.kind \in {"upscaleImage", "downloadUpscale"} => opts.upscaling # "off"
  /\ st.kind \in {"removeBackground", "downloadPng"} => opts.backgroundRemoval
  /\ st.kind = "addBackgroundColor" =>
       opts.backgroundRemoval /\ opts.backgroundColor \in HexColors

AllSteps ==
  {Step(v, k) : v \in {"both", "portrait", "square"},
                k \in RemoteKinds \cup {"detectFaceAndCrop", "crop", "saveFinal",
                                        "addBackgroundColor"}}

Awaits(todo, st) == \E i \in 1..Len(todo) : todo[i] = st

(* C34: a run that begins has detection first and exactly the enabled      *)
(* steps ahead of it; the steps a run has left are always in the order     *)
(* detection, portrait steps, square steps, and within a variant crop,     *)
(* face enhancement, skin smoothing, upscaling, final JPEG, background     *)
(* removal, no step twice; and a run moves on by one step at a time, the   *)
(* one it awaited.                                                         *)
C34_StepsSequentialAndOrdered ==
  /\ [](pipe.item # 0 =>
          \A i, j \in 1..Len(pipe.todo) :
            i < j => StepRank(pipe.todo[i]) < StepRank(pipe.todo[j]))
  /\ [][(pipe.item = 0 /\ pipe'.item # 0) =>
          /\ Head(pipe'.todo) = Step("both", "detectFaceAndCrop")
          /\ \A st \in AllSteps : Awaits(pipe'.todo, st) <=> StepEnabled(pipe'.opts, st)]_vars
  /\ [][(pipe.item # 0 /\ pipe'.item = pipe.item /\ pipe'.todo # pipe.todo) =>
          pipe'.todo = Tail(pipe.todo)]_vars

(* with every enhancement on, the portrait steps are done and the run is   *)
(* about to crop the square variant                                        *)
C34_Witness ==
  /\ pipe.item = 1
  /\ pipe.opts.skinSmoothing = "low"
  /\ pipe.opts.upscaling = "2x"
  /\ Head(pipe.todo) = Step("square", "crop")
  /\ Awaits(pipe.todo, Step("square", "smoothSkin"))
  /\ Awaits(pipe.todo, Step("square", "downloadUpscale"))
  /\ Awaits(pipe.todo, Step("square", "downloadPng"))
----------------------------------------------------------------------------
(* C35: a run that begins submits a skin-smoothing job for a variant if    *)
(* and only if the skin-smoothing intensity is not 'off' and differs from  *)
(* the face-enhancement intensity; with face enhancement 'off' it submits  *)
(* no enhancement job and goes from the crop straight to the next step.    *)
C35_SkinSmoothingOnlyIfDifferent ==
  [][(pipe.item = 0 /\ pipe'.item # 0) =>
       \A v \in Variants :
         /\ Awaits(pipe'.todo, Step(v, "smoothSkin")) <=>
              /\ Awaits(pipe'.todo, Step(v, "crop"))
              /\ pipe'.opts.skinSmoothing # "off"
              /\ pipe'.opts.skinSmoothing # pipe'.opts.faceEnhancement
         /\ pipe'.opts.faceEnhancement = "off" =>
              ~Awaits(pipe'.todo, Step(v, "enhanceFace"))]_vars
----------------------------------------------------------------------------
(* C36: the crop of the emitted size is placed with its centre on the face *)
(* centre horizontally (left = round(faceCenterX - width / 2)) and with    *)
(* the face centre 0.30 (portrait) or 0.35 (square) of the crop height     *)
(* below its top, whenever that window lies inside the image; otherwise it *)
(* is moved just to the edge it crossed.                                   *)
C36_CropCentredOnFace ==
  crop.pc = "cropped" =>
    LET idealX == MathRound(crop.faceData.faceCenterX2 - crop.width, 2)
        fraction100 == IF crop.aspectRatio = SQUARE_ASPECT_RATIO THEN 35 ELSE 30
        idealY == MathRound(50 * crop.faceData.faceCenterY2 - fraction100 * crop.height, 100)
    IN /\ crop.left = IF idealX < 0 THEN 0
                      ELSE IF idealX + crop.width > crop.faceData.imageWidth
                      THEN crop.faceData.imageWidth - crop.width
                      ELSE idealX
       /\ crop.top = IF idealY < 0 THEN 0
                     ELSE IF idealY + crop.height > crop.faceData.imageHeight
                     THEN crop.faceData.imageHeight - crop.height
                     ELSE idealY

(* a 3 x 4 portrait crop around a face at (2.5, 2): the window fits, the   *)
(* face is in the middle and 0.30 of the height (1.2, rounded) from the    *)
(* top                                                                     *)
C36_Witness ==
  /\ crop.pc = "cropped"
  /\ crop.aspectRatio = HEADSHOT_ASPECT_RATIO
  /\ crop.faceData.imageWidth = 5
  /\ crop.faceData.imageHeight = 5
  /\ crop.faceData.faceCenterX2 = 5
  /\ crop.faceData.faceCenterY2 = 4
  /\ crop.width = 3
  /\ crop.height = 4
  /\ crop.left = 1
  /\ crop.top = 1
----------------------------------------------------------------------------
(* C37: in every state the summary of getStatus() agrees with the list:    *)
(* its 'processing' count is the number of listed jobs with status         *)
(* 'processing', its currentItem is set exactly when there is such a job,  *)
(* and its four counts add up to queueLength.                              *)
C37_StatusConsistentWithList ==
  LET status == getStatus(Cur)
      inProcessing == {i \in 1..Len(queue) : job[queue[i]].status = "processing"}
  IN /\ status.processing = Cardinality(inProcessing)
     /\ status.currentItem # 0 <=> inProcessing # {}
     /\ status.pending + status.processing + status.failed + status.completed
          = status.queueLength
----------------------------------------------------------------------------
(* C38: no stuck queue: when nothing is in flight (no pipeline run, no     *)
(* backoff wait, no deferred scheduling pass), a credential is set and     *)
(* processing is enabled, no job in the list is 'pending'.                 *)
C38_NoStuckQueue ==
  (runs = EmptyBag /\ apiKey # NULL /\ processingEnabled) =>
    \A i \in 1..Len(queue) : job[queue[i]].status # "pending"
----------------------------------------------------------------------------
----------------------------------------------------------------------------
====
